---- MODULE Spec2Model ----
(***************************************************************************)
(* A model of the line-numbered BASIC interpreter (emidiocunha/basic).     *)
(*                                                                         *)
(* Part A  program text: trim, the tokenizer, store-time keyword           *)
(*         normalization, storeProgramLine, SAVE and LOAD.                 *)
(* Part B  Int16 arithmetic of Parser::applyOp.                            *)
(* Part C  the driving loop and the statement executor: FOR/NEXT, IF,      *)
(*         GOTO/GOSUB/RETURN, DATA/READ/RESTORE, END/STOP, the interval    *)
(*         interrupt.                                                      *)
(* Part D  the threaded SDL front end: the UI thread's main loop, the      *)
(*         interpreter thread, the terminal mutex and the break flag.      *)
(*                                                                         *)
(* Text is a sequence of one-character strings; an offset into a text is   *)
(* 0-based as in the C++ (the character at offset k is s[k+1]).            *)
(***************************************************************************)
EXTENDS Integers, Sequences, FiniteSets, TLC

VARIABLES
    \* ---- Env (src/basic/env.h) ----
    program,            \* Env::program: line number -> text of the line
    pc,                 \* Env::pc: the current line, or EndPc for program.end()
    posInLine,          \* Env::posInLine
    running,            \* Env::running
    stopped,            \* Env::stopped
    contAvailable,      \* Env::contAvailable
    varStore,           \* Env::vars: name -> the number of the Value
    varTypes,           \* Env::vars: name -> the type of the Value
    defInt,             \* Env::defInt: the names DEFINT made Int16
    arrays,             \* Env::arrays: name -> [type, elems]
    forStack,           \* Env::forStack
    gosubStack,         \* Env::gosubStack
    dataCache,          \* Env::dataCache
    dataPtr,            \* Env::dataPtr
    dataCacheBuilt,     \* Env::dataCacheBuilt
    intervalArmed,      \* Env::intervalArmed
    intervalEnabled,    \* Env::intervalEnabled
    inIntervalISR,      \* Env::inIntervalISR
    intervalSeconds,    \* Env::intervalSeconds, a fraction of seconds
    intervalGosubLine,  \* Env::intervalGosubLine
    nextIntervalFire,   \* Env::nextIntervalFire, in timer ticks
    \* ---- the driving loop and the Parser of the line being executed ----
    phase,              \* where the driving loop stands
    tok,                \* kind of the Parser's current token
    tokStart,           \* Lexer::tokenStart, as an offset in the whole line
    nested,             \* the Parsers exec_IF runs inside the Parser of the
                        \* line: thenStmtStart of each, the outermost first
    now,                \* the last reading of the monotonic clock
    out,                \* what PRINT has written so far
    lastError,          \* the diagnostic of the error that halted the run
    diag,               \* the diagnostics written since the last command
    sigint,             \* g_sigint_requested
    \* ---- the REPL and the file system ----
    file,               \* contents of the program file on disk, or NoFile
    crashed,            \* an exception left a REPL command uncaught
    lastOp,             \* the REPL command executed last, with its input
    \* ---- Parser::applyOp ----
    operands,           \* the operator and the operands handed to applyOp
    result,             \* what applyOp returned or raised
    \* ---- history (not program state) ----
    saved,              \* the line map at the time of the last SAVE
    frameTags,          \* for each GOSUB frame: who pushed it, and what was current
    resumed,            \* for each RETURN: where it should resume, what ran next
    trace,              \* the statements the current run executed, as (line, offset)
    runs,               \* the number of commands typed that ran statements
    \* ---- the SDL front end (src/basic/repl_sdl2_ttf.cpp) ----
    ui,                 \* where the UI thread stands in its main loop
    programThread,      \* where the interpreter thread stands, or "none"
    termMutex,          \* who holds termMutex, or "free"
    programRunning,     \* programRunning
    programDone,        \* programDone
    debugStepping,      \* debugStepping
    sdlEvents,          \* the SDL event queue
    committed,          \* the line handed to commitLine
    keys                \* the number of keys the operator has pressed

cursorVars == <<pc, posInLine, running, stopped, contAvailable>>
dataVars == <<dataCache, dataPtr, dataCacheBuilt>>
stackVars == <<forStack, gosubStack>>
varVars == <<varStore, defInt, varTypes>>
timerVars == <<intervalArmed, intervalEnabled, inIntervalISR, intervalSeconds,
               intervalGosubLine, nextIntervalFire, now>>
parserVars == <<phase, tok, tokStart, nested>>
replVars == <<file, crashed, lastOp, saved>>
arithVars == <<operands, result>>
historyVars == <<frameTags, resumed, trace, runs>>
sdlVars == <<ui, programThread, termMutex, programRunning, programDone,
             debugStepping, sdlEvents, committed, keys>>
vars == <<program, cursorVars, varVars, dataVars, stackVars, timerVars,
          parserVars, out, lastError, diag, sigint, replVars, arithVars, arrays,
          historyVars, sdlVars>>

None == "none"
NoFile == <<"nofile">>

\* ------------------------------------------------------------------------
\* Part A.1  characters (the <cctype> classification of the bytes used)
\* ------------------------------------------------------------------------

LowerLetters ==
    <<"a","b","c","d","e","f","g","h","i","j","k","l","m",
      "n","o","p","q","r","s","t","u","v","w","x","y","z">>

UpperLetters ==
    <<"A","B","C","D","E","F","G","H","I","J","K","L","M",
      "N","O","P","Q","R","S","T","U","V","W","X","Y","Z">>

Digits == <<"0","1","2","3","4","5","6","7","8","9">>

Range(f) == {f[k] : k \in DOMAIN f}

\* the element of a one-element set
Only(S) == CHOOSE x \in S : TRUE

isspace(c) == c \in {" ", "\t", "\n", "\r"}
isdigit(c) == c \in Range(Digits)
isalpha(c) == c \in Range(LowerLetters) \cup Range(UpperLetters)
isalnum(c) == isalpha(c) \/ isdigit(c)

toupper(c) ==
    IF c \in Range(LowerLetters)
    THEN UpperLetters[CHOOSE k \in DOMAIN LowerLetters : LowerLetters[k] = c]
    ELSE c

\* s.substr(pos, n) and s.substr(pos), with 0-based pos
substr(s, pos, n) == SubSeq(s, pos + 1, pos + n)
substrFrom(s, pos) == SubSeq(s, pos + 1, Len(s))

upper_ascii(s) == [k \in DOMAIN s |-> toupper(s[k])]

RECURSIVE trimLeft(_, _)
trimLeft(s, a) ==
    IF a < Len(s) /\ isspace(s[a + 1]) THEN trimLeft(s, a + 1) ELSE a

RECURSIVE trimRight(_, _, _)
trimRight(s, a, b) ==
    IF b > a /\ isspace(s[b]) THEN trimRight(s, a, b - 1) ELSE b

trim(s) ==
    LET a == trimLeft(s, 0)
        b == trimRight(s, a, Len(s))
    IN substr(s, a, b - a)

\* ------------------------------------------------------------------------
\* Part A.2  the tokenizer
\* ------------------------------------------------------------------------

\* The keyword table of Lexer::next, in upper case.
Keywords ==
    { <<"P","R","I","N","T">>, <<"L","E","T">>, <<"I","N","P","U","T">>,
      <<"I","F">>, <<"T","H","E","N">>, <<"G","O","T","O">>,
      <<"G","O","S","U","B">>, <<"R","E","T","U","R","N">>, <<"F","O","R">>,
      <<"T","O">>, <<"S","T","E","P">>, <<"N","E","X","T">>, <<"E","N","D">>,
      <<"S","T","O","P">>, <<"R","E","M">>, <<"D","I","M">>, <<"A","N","D">>,
      <<"O","R">>, <<"N","O","T">>, <<"M","O","D">>, <<"C","L","S">>,
      <<"L","O","C","A","T","E">>, <<"R","A","N","D","O","M","I","Z","E">>,
      <<"R","U","N">>, <<"L","I","S","T">>, <<"N","E","W">>,
      <<"C","L","E","A","R">>, <<"D","E","L","E","T","E">>,
      <<"C","O","N","T">>, <<"S","A","V","E">>, <<"L","O","A","D">> }

KW_REM == <<"R","E","M">>

\* The single-character tokens of the switch at the end of Lexer::next.
SingleCharTokens ==
    {"+", "-", "*", "/", "\\", "^", "(", ")", ",", ";", ":", "=", "<", ">", "%"}

RECURSIVE skipSpace(_, _)
skipSpace(s, i) ==
    IF i < Len(s) /\ isspace(s[i + 1]) THEN skipSpace(s, i + 1) ELSE i

\* The string-literal loop; i is the offset after the opening quote.
RECURSIVE scanString(_, _)
scanString(s, i) ==
    IF i >= Len(s) THEN i
    ELSE IF s[i + 1] = "\""
         THEN IF i + 1 < Len(s) /\ s[i + 2] = "\""
              THEN scanString(s, i + 2)
              ELSE i + 1
         ELSE scanString(s, i + 1)

RECURSIVE scanDigits(_, _)
scanDigits(s, i) ==
    IF i < Len(s) /\ isdigit(s[i + 1]) THEN scanDigits(s, i + 1) ELSE i

scanNumber(s, i0) ==
    LET seenDot0 == s[i0 + 1] = "."
        i1 == scanDigits(s, IF seenDot0 THEN i0 + 1 ELSE i0)
        i2 == IF ~seenDot0 /\ i1 < Len(s) /\ s[i1 + 1] = "."
              THEN scanDigits(s, i1 + 1)
              ELSE i1
        j0 == i2 + 1
        j1 == IF j0 < Len(s) /\ s[j0 + 1] \in {"+", "-"} THEN j0 + 1 ELSE j0
        j2 == scanDigits(s, j1)
    IN IF i2 < Len(s) /\ s[i2 + 1] \in {"e", "E"} /\ j2 > j1 THEN j2 ELSE i2

RECURSIVE scanIdent(_, _)
scanIdent(s, i) ==
    IF i < Len(s) /\ (isalnum(s[i + 1]) \/ s[i + 1] \in {"_", "$"})
    THEN scanIdent(s, i + 1)
    ELSE i

Tok(kind, start, end) == [kind |-> kind, tokenStart |-> start, tokenEnd |-> end]

\* Lexer::next from offset i0: the token's kind and span. kind "Error" is the
\* ParseError("Unexpected character") thrown at the end of next().
LexerNext(s, i0) ==
    LET i == skipSpace(s, i0)
        c == s[i + 1]
    IN IF i >= Len(s) THEN Tok("End", i, i)
       ELSE IF c = "\"" THEN Tok("String", i, scanString(s, i + 1))
       ELSE IF isdigit(c) \/ (c = "." /\ i + 1 < Len(s) /\ isdigit(s[i + 2]))
            THEN Tok("Number", i, scanNumber(s, i))
       ELSE IF isalpha(c) \/ c = "_"
            THEN LET e == scanIdent(s, i + 1)
                     up == upper_ascii(substr(s, i, e - i))
                 IN IF up = KW_REM THEN Tok("KW_REM", i, e)
                    ELSE IF up \in Keywords THEN Tok("Keyword", i, e)
                    ELSE Tok("Identifier", i, e)
       ELSE IF c \in {"<", ">"} /\ i + 1 < Len(s)
               /\ <<c, s[i + 2]>> \in {<<"<", ">">>, <<"<", "=">>, <<">", "=">>}
            THEN Tok("Operator", i, i + 2)
       ELSE IF c = "%" THEN Tok("KW_MOD", i, i + 1)
       ELSE IF c \in SingleCharTokens THEN Tok("Operator", i, i + 1)
       ELSE Tok("Error", i, i + 1)

\* token.h is not part of the sources at hand: the keyword kinds are the KW_*
\* kinds of the tokenizer.
is_basic_keyword(kind) == kind \in {"Keyword", "KW_REM", "KW_MOD"}


\* ------------------------------------------------------------------------
\* Part A.3  store-time keyword normalization
\* ------------------------------------------------------------------------

\* The loop of normalize_keywords_upper_preserve: i is the tokenizer's offset,
\* last the end of the token copied last, acc the output so far. The result is
\* [ok |-> FALSE] when the tokenizer throws. normalizeStep is one iteration,
\* for the token t that lx.next() returned.
RECURSIVE normalizeLoop(_, _, _, _)
normalizeStep(line, t, last, acc) ==
    LET gap == IF last < t.tokenStart
               THEN substr(line, last, t.tokenStart - last)
               ELSE <<>>
        raw == substr(line, t.tokenStart, t.tokenEnd - t.tokenStart)
    IN IF t.kind = "Error" THEN [ok |-> FALSE, text |-> acc]
       ELSE IF t.kind = "End"
            THEN [ok |-> TRUE,
                  text |-> acc \o (IF last < Len(line)
                                   THEN substrFrom(line, last) ELSE <<>>)]
       ELSE IF t.kind = "KW_REM"
            THEN [ok |-> TRUE,
                  text |-> acc \o gap \o KW_REM
                           \o (IF t.tokenEnd < Len(line)
                               THEN substrFrom(line, t.tokenEnd) ELSE <<>>)]
       ELSE normalizeLoop(line, t.tokenEnd, t.tokenEnd,
                          acc \o gap \o (IF is_basic_keyword(t.kind)
                                         THEN upper_ascii(raw) ELSE raw))

normalizeLoop(line, i, last, acc) ==
    Only({ normalizeStep(line, t, last, acc) : t \in {LexerNext(line, i)} })

normalize_keywords_upper_preserve(line) == normalizeLoop(line, 0, 0, <<>>)

\* ------------------------------------------------------------------------
\* Part A.4  the line map: storeProgramLine, SAVE, LOAD
\* ------------------------------------------------------------------------

EndPc == 0
EmptyProgram == [n \in {} |-> <<>>]

Erase(prog, ln) == [k \in DOMAIN prog \ {ln} |-> prog[k]]
Assign(prog, ln, text) ==
    [k \in DOMAIN prog \cup {ln} |-> IF k = ln THEN text ELSE prog[k]]

\* What storeProgramLine does to the line map. thrown: the tokenizer's
\* ParseError left storeProgramLine before the map was written;
\* edited: resetAfterProgramEdit was reached.
storeProgramLineMap(prog, ln, restRaw) ==
    LET rest == trim(restRaw)
        norm == normalize_keywords_upper_preserve(rest)
    IN IF ln <= 0 THEN [thrown |-> FALSE, edited |-> FALSE, program |-> prog]
       ELSE IF rest = <<>>
            THEN [thrown |-> FALSE, edited |-> TRUE, program |-> Erase(prog, ln)]
       ELSE IF ~norm.ok
            THEN [thrown |-> TRUE, edited |-> FALSE, program |-> prog]
       ELSE [thrown |-> FALSE, edited |-> TRUE,
             program |-> Assign(prog, ln, norm.text)]

resetAfterProgramEdit_keepCont ==
    /\ running' = FALSE
    /\ stopped' = FALSE
    /\ posInLine' = 0
    /\ pc' = EndPc
    /\ dataCacheBuilt' = FALSE
    /\ dataCache' = <<>>
    /\ dataPtr' = 0
    /\ UNCHANGED contAvailable

\* Interpreter::resetAfterProgramEdit
resetAfterProgramEdit ==
    /\ running' = FALSE
    /\ stopped' = FALSE
    /\ contAvailable' = FALSE
    /\ posInLine' = 0
    /\ pc' = EndPc
    /\ dataCacheBuilt' = FALSE
    /\ dataCache' = <<>>
    /\ dataPtr' = 0

\* operator<<(int) and operator>>(int) on the decimal digits
RECURSIVE IntToChars(_)
IntToChars(n) ==
    IF n < 10 THEN <<Digits[n + 1]>>
    ELSE IntToChars(n \div 10) \o <<Digits[(n % 10) + 1]>>

DigitValue(c) == (CHOOSE k \in DOMAIN Digits : Digits[k] = c) - 1

RECURSIVE CharsToInt(_, _)
CharsToInt(s, acc) ==
    IF s = <<>> THEN acc
    ELSE CharsToInt(Tail(s), 10 * acc + DigitValue(Head(s)))

\* The keys of the map in ascending order (the iteration order of std::map).
RECURSIVE Ascending(_)
Ascending(S) ==
    IF S = {} THEN <<>>
    ELSE LET m == CHOOSE x \in S : \A y \in S : x <= y
         IN <<m>> \o Ascending(S \ {m})

RECURSIVE saveLines_nosep(_, _)
saveLines_nosep(prog, lns) ==
    IF lns = <<>> THEN <<>>
    ELSE IntToChars(Head(lns)) \o prog[Head(lns)] \o <<"\n">>
         \o saveLines_nosep(prog, Tail(lns))

\* The bytes cmd_SAVE writes: one record "<ln> <text>\n" per line.
RECURSIVE saveLines(_, _)
saveLines(prog, lns) ==
    IF lns = <<>> THEN <<>>
    ELSE IntToChars(Head(lns)) \o <<" ">> \o prog[Head(lns)] \o <<"\n">>
         \o saveLines(prog, Tail(lns))

savedFile(prog) == saveLines(prog, Ascending(DOMAIN prog))

\* std::getline over the whole file: the records between the newlines.
RECURSIVE getlines(_, _)
getlines(f, cur) ==
    IF f = <<>> THEN (IF cur = <<>> THEN <<>> ELSE <<cur>>)
    ELSE IF Head(f) = "\n" THEN <<cur>> \o getlines(Tail(f), <<>>)
    ELSE getlines(Tail(f), Append(cur, Head(f)))

\* The loop of cmd_LOAD over the records recs, starting from the map prog;
\* loadLine is its body for one record.
RECURSIVE loadLines(_, _)
loadLine(rec, rest, prog) ==
    LET t == trim(rec)
        d == scanDigits(t, 0)
        ln == CharsToInt(substr(t, 0, d), 0)
    IN IF t = <<>> \/ ~isdigit(t[1]) \/ ln <= 0
       THEN loadLines(rest, prog)
       ELSE Only({ IF st.thrown
                   THEN [thrown |-> TRUE, program |-> st.program]
                   ELSE loadLines(rest, st.program) :
                   st \in {storeProgramLineMap(prog, ln, trim(substrFrom(t, d)))} })

loadLines(recs, prog) ==
    IF recs = <<>> THEN [thrown |-> FALSE, program |-> prog]
    ELSE loadLine(Head(recs), Tail(recs), prog)

\* ---- the REPL commands that edit, save and load the program ----

AtPrompt == phase = "idle" /\ ~crashed

runUntouched ==
    UNCHANGED <<varVars, stackVars, timerVars, parserVars, out, lastError,
                diag, sigint, sdlVars, arithVars, arrays, historyVars>>

\* Interpreter::storeProgramLine, called by the REPL for a numbered line.
storeProgramLine(ln, restRaw) ==
    LET st == storeProgramLineMap(program, ln, restRaw)
    IN /\ AtPrompt
       /\ program' = st.program
       /\ crashed' = st.thrown
       /\ lastOp' = [op |-> "store", ln |-> ln, raw |-> restRaw]
       /\ IF st.edited THEN resetAfterProgramEdit
                       ELSE UNCHANGED <<cursorVars, dataVars>>
       /\ UNCHANGED <<file, saved>>
       /\ runUntouched

\* Interpreter::cmd_DELETE
cmd_DELETE(ln) ==
    LET st == storeProgramLineMap(program, ln, <<>>)
    IN /\ AtPrompt
       /\ program' = st.program
       /\ lastOp' = [op |-> "delete", ln |-> ln, raw |-> <<>>]
       /\ IF st.edited THEN resetAfterProgramEdit
                       ELSE UNCHANGED <<cursorVars, dataVars>>
       /\ UNCHANGED <<file, crashed, saved>>
       /\ runUntouched

\* Interpreter::cmd_SAVE (the file can be opened for writing)
cmd_SAVE ==
    /\ AtPrompt
    /\ file' = savedFile(program)
    /\ saved' = program
    /\ lastOp' = [op |-> "save", ln |-> 0, raw |-> <<>>]
    /\ UNCHANGED <<program, cursorVars, dataVars, crashed>>
    /\ runUntouched

\* Interpreter::cmd_LOAD
cmd_LOAD ==
    /\ AtPrompt
    /\ lastOp' = [op |-> "load", ln |-> 0, raw |-> <<>>]
    /\ IF file = NoFile
       THEN UNCHANGED <<program, cursorVars, dataVars, crashed>>
       ELSE LET ld == loadLines(getlines(file, <<>>), EmptyProgram)
            IN /\ program' = ld.program
               /\ crashed' = ld.thrown
               /\ resetAfterProgramEdit
    /\ UNCHANGED <<file, saved>>
    /\ runUntouched


\* ------------------------------------------------------------------------
\* Initial state: the interpreter after construction, at the first prompt
\* ------------------------------------------------------------------------

\* =========================================================================
\* Part B.  Int16 arithmetic (parser.h applyOp, env.h Value)
\* =========================================================================

Int16Min == -32768
Int16Max == 32767
Int16 == Int16Min..Int16Max

Overflow == "Overflow"
DivisionByZero == "Division by zero"

\* What an evaluation gives: a value, or the RuntimeError it throws.
Returned(v) == [err |-> None, val |-> v]
Thrown(e) == [err |-> e, val |-> 0]
NoResult == [err |-> "unset", val |-> 0]

abs(x) == IF x < 0 THEN -x ELSE x

\* Value::toInt16Checked(double) on an integral x (trunc(x) = x)
toInt16Checked(x) ==
    IF x < Int16Min \/ x > Int16Max THEN Thrown(Overflow) ELSE Returned(x)

\* static_cast<int16_t> of an int: the value modulo 2^16 in [-32768, 32767]
castInt16(x) == ((x - Int16Min) % (Int16Max - Int16Min + 1)) + Int16Min

\* the built-in / and % of C++ on int: the quotient is truncated toward zero
cdiv_floor(a, b) == IF b > 0 THEN a \div b ELSE (-a) \div (-b)
cdiv(a, b) ==
    IF (a < 0) = (b < 0) THEN abs(a) \div abs(b) ELSE -(abs(a) \div abs(b))
cmod(a, b) == a - b * cdiv(a, b)

\* Parser::applyOp for two Int16 operands (a.isInt() && b.isInt()) and the
\* operators + - * \ MOD.  The int32_t intermediate cannot overflow: its
\* magnitude is at most 2^30.
applyOpInt16(op, a, b) ==
    CASE op = "+" -> toInt16Checked(a + b)
      [] op = "-" -> toInt16Checked(a - b)
      [] op = "*" -> toInt16Checked(a * b)
      [] op = "\\" ->
            IF b = 0 THEN Thrown(DivisionByZero)
            ELSE IF a = Int16Min /\ b = -1 THEN Thrown(Overflow)
            ELSE Returned(castInt16(cdiv(a, b)))
      [] op = "MOD" ->
            IF b = 0 THEN Thrown(DivisionByZero)
            ELSE Returned(castInt16(cmod(a, b)))

\* Parser::applyOp of \ and MOD when an operand is not an Int16, for
\* operands without a fraction: trunc(a / b) goes through toInt16Checked,
\* fmod(a, b) is returned as a Double
applyOpDouble(op, a, b) ==
    CASE op = "\\" ->
            IF b = 0 THEN Thrown(DivisionByZero)
            ELSE toInt16Checked(cdiv(a, b))
      [] op = "MOD" ->
            IF b = 0 THEN Thrown(DivisionByZero)
            ELSE Returned(cmod(a, b))

\* The pending expression  a op b  is evaluated; ta and tb are the types of
\* the operands.
applyOp ==
    /\ AtPrompt
    /\ result = NoResult
    /\ result' = IF operands.ta = "Int16" /\ operands.tb = "Int16"
                 THEN applyOpInt16(operands.op, operands.a, operands.b)
                 ELSE applyOpDouble(operands.op, operands.a, operands.b)
    /\ UNCHANGED <<program, cursorVars, varVars, dataVars, stackVars,
                   timerVars, parserVars, replVars, out, lastError, diag,
                   sigint, sdlVars, operands, arrays, historyVars>>

\* =========================================================================
\* Part C.  The driving loop and the statement executor
\*          (interpreter.h runFromStart/cont/execute, parser.h, env.h)
\* =========================================================================
\* In this part a stored line is the sequence of its units: one unit for each
\* statement and one for each ':' separator. A unit stands for the characters
\* of its tokens, so the offsets the code keeps (posInLine, tokenStart,
\* tokenEnd, Lexer::i) are counted in units: the unit at offset k is line[k+1].
\* Numbers are integers; string variables and arrays are not modelled.

Stmt(op) ==
    [op |-> op, var |-> "", vars |-> <<>>, a |-> 0, b |-> 0, c |-> 0,
     items |-> <<>>]

Colon == Stmt(":")

\* a character the Lexer has no token for: Lexer::next throws ParseError
Unexpected == Stmt("!")

\* ---- Env ----

Min(S) == CHOOSE m \in S : \A k \in S : m <= k
Max(S) == CHOOSE m \in S : \A k \in S : m >= k

\* program.begin() and ++pc
FirstPc(prog) == IF DOMAIN prog = {} THEN EndPc ELSE Min(DOMAIN prog)
NextPc(prog, ln) ==
    IF \E k \in DOMAIN prog : k > ln
    THEN Min({k \in DOMAIN prog : k > ln}) ELSE EndPc

\* Parser::upperName, on the names the sample programs use
upperName(name) ==
    CASE name = "i" -> "I"
      [] name = "j" -> "J"
      [] OTHER -> name

\* Env::varTypeForName: a name DEFINT covers is Int16, any other is Double
\* (the tokenizer ends an identifier before a '%').
varTypeForName(name, di) == IF upperName(name) \in di THEN "Int16" ELSE "Double"

\* Env::getVar
getVar(store, name) == IF name \in DOMAIN store THEN store[name] ELSE 0

\* Env::setVar, the type of the Value it stores under each of names: the
\* type of the name when the assignment runs
setVarTypes(types, di, names) ==
    [n \in (DOMAIN types) \cup names |->
        IF n \in names THEN varTypeForName(n, di) ELSE types[n]]

\* Env::setVar: [err, store]; an Int16 variable takes Value::asInt() of v
setVar(store, di, name, v) ==
    IF varTypeForName(name, di) = "Int16" /\ toInt16Checked(v).err # None
    THEN [err |-> toInt16Checked(v).err, store |-> store]
    ELSE [err |-> None, store |-> Assign(store, name, v)]

\* The DATA items of one line, left to right (the scan of rebuildDataCache
\* inside one line, with split_data_items).
RECURSIVE dataItemsOfLine(_, _)
dataItemsOfLine(ln, line) ==
    IF line = <<>> THEN <<>>
    ELSE (IF Head(line).op = "DATA"
          THEN [k \in DOMAIN Head(line).items |->
                    [line |-> ln, raw |-> Head(line).items[k]]]
          ELSE <<>>) \o dataItemsOfLine(ln, Tail(line))

RECURSIVE cacheLines(_, _)
cacheLines(prog, lns) ==
    IF lns = <<>> THEN <<>>
    ELSE dataItemsOfLine(Head(lns), prog[Head(lns)]) \o cacheLines(prog, Tail(lns))

RECURSIVE Descending(_)
Descending(S) ==
    IF S = {} THEN <<>> ELSE <<Max(S)>> \o Descending(S \ {Max(S)})

rebuildDataCache_descending(prog) == cacheLines(prog, Descending(DOMAIN prog))
\* Env::rebuildDataCache: the lines of the map in ascending order
rebuildDataCache(prog) == cacheLines(prog, Ascending(DOMAIN prog))

\* Env::restoreData after ensureDataCache: the index of the first item whose
\* line is not below lineOr0
RECURSIVE restoreScan(_, _, _)
restoreScan(cache, lineOr0, i) ==
    IF i < Len(cache) /\ cache[i + 1].line < lineOr0
    THEN restoreScan(cache, lineOr0, i + 1) ELSE i

restoreData_first(cache, lineOr0) == 0
restoreData(cache, lineOr0) ==
    IF lineOr0 <= 0 THEN 0 ELSE restoreScan(cache, lineOr0, 0)

\* the loop of exec_READ over the names of the statement, with
\* Env::readNextData: [err, store, ptr, left], left the names not assigned
RECURSIVE readLoop(_, _, _, _, _)
readLoop(names, store, di, cache, ptr) ==
    IF names = <<>>
    THEN [err |-> None, store |-> store, ptr |-> ptr, left |-> names]
    ELSE IF ptr >= Len(cache)
         THEN [err |-> "Out of data", store |-> store, ptr |-> ptr,
               left |-> names]
    ELSE Only({ IF r.err # None
                THEN [err |-> r.err, store |-> store, ptr |-> ptr + 1,
                      left |-> names]
                ELSE readLoop(Tail(names), r.store, di, cache, ptr + 1) :
                r \in {setVar(store, di, Head(names), cache[ptr + 1].raw)} })

\* ---- the FOR stack ----

\* index of the topmost frame of var, 0 when there is none
sameName_exact(a, b) == a = b
\* the comparison of exec_FOR and exec_NEXT: upperName on both sides
sameName(a, b) == upperName(a) = upperName(b)

frameIndex(stack, var) ==
    IF \E i \in DOMAIN stack : sameName(stack[i].var, var)
    THEN Max({i \in DOMAIN stack : sameName(stack[i].var, var)}) ELSE 0

\* exec_FOR erases the frame of the same variable and every frame above it
dropFrom(stack, var) ==
    IF frameIndex(stack, var) = 0 THEN stack
    ELSE SubSeq(stack, 1, frameIndex(stack, var) - 1)

ForContinues_up(step, cur, endValue) == cur <= endValue
ForContinues_strict(step, cur, endValue) ==
    IF step >= 0 THEN cur < endValue ELSE cur > endValue
\* the continuation test of exec_NEXT
ForContinues(step, cur, endValue) ==
    IF step >= 0 THEN cur <= endValue ELSE cur >= endValue

nextFrame_top(stack, var) ==
    IF var = "" \/ (stack # <<>> /\ stack[Len(stack)].var = var)
    THEN Len(stack) ELSE 0
\* the frame exec_NEXT works on: the top frame for a bare NEXT, else the
\* topmost frame of the variable named; 0 is NEXT without FOR
nextFrame(stack, var) ==
    IF var = "" THEN Len(stack) ELSE frameIndex(stack, var)

\* ---- the Parser's position in the line ----

tokKindAt(line, k) ==
    IF k >= Len(line) THEN "End"
    ELSE IF line[k + 1].op = ":" THEN "Colon" ELSE "Stmt"

\* Lexer::tokenStart once the statement at offset k has been parsed: the
\* parser holds the token that follows it
nextTokStart(line, k) == IF k + 1 < Len(line) THEN k + 1 ELSE Len(line)

markLineProgress_here(line, k) == k
\* Parser::markLineProgress in a statement at offset k that has been parsed:
\* Lexer::i stands behind the token that follows the statement
markLineProgress(line, k) == IF k + 1 < Len(line) THEN k + 2 ELSE Len(line)

nextFireAfter_once(fire, period, t) == fire + period
\* the do-while of maybeFireIntervalInterrupt that schedules the next fire
RECURSIVE nextFireAfter(_, _, _)
nextFireAfter(fire, period, t) ==
    IF fire + period <= t THEN nextFireAfter(fire + period, period, t)
    ELSE fire + period

\* ---- the state of a run ----

MaxTime == 3       \* the clock reads 0..MaxTime ticks
MaxRuns == 2       \* RUN and CONT commands typed in one session

scheduleVars == <<intervalArmed, intervalEnabled, intervalSeconds,
                  intervalGosubLine, nextIntervalFire, now>>
sessionVars == <<program, replVars, arithVars, arrays, runs, sigint, sdlVars>>

\* executeImmediate runs the Parser over the line typed at the prompt
Immediate == lastOp.op = "immediate"

\* Lexer::s of the Parser at work, as the whole line
CurLine == IF Immediate THEN lastOp.raw ELSE program[pc]
CurStmt == CurLine[tokStart + 1]
Here == <<pc, tokStart>>

\* ON INTERVAL counts in sixtieths of a second
TicksPerSecond == 60

Seconds_whole(num, den) == [num |-> num, den |-> 1]
\* the double that holds num / den seconds
Seconds(num, den) == [num |-> num, den |-> den]

\* duration_cast of seconds to the duration of the clock, which truncates;
\* the clock of the model counts sixtieths of a second
durationOf(sec) ==
    IF sec.num >= 0 THEN (sec.num * 60) \div sec.den
    ELSE 0 - ((0 - sec.num) * 60) \div sec.den

Eligible_reentrant ==
    intervalArmed /\ intervalEnabled /\ intervalSeconds.num > 0
\* the first three tests of maybeFireIntervalInterrupt
Eligible ==
    /\ intervalArmed /\ intervalEnabled
    /\ intervalSeconds.num > 0
    /\ ~inIntervalISR

\* maybeFireIntervalInterrupt returns without a dispatch: a test fails, or
\* the clock still reads less than nextIntervalFire
NoInterrupt ==
    ~Eligible \/ now < nextIntervalFire \/ durationOf(intervalSeconds) <= 0

\* Nothing is dispatched before the statement: the safe point of
\* parseAndExecLine lets it through, and the loop of exec_IF over the
\* statements behind THEN has no safe point.
LetThrough == nested # <<>> \/ NoInterrupt

\* the switch of execOneStatement selects the statement op after the safe
\* point before the statement let it through
Dispatching(op) ==
    phase = "pre" /\ tok = "Stmt" /\ CurStmt.op = op /\ LetThrough

\* ---- history: the statements executed, and what each RETURN resumed ----

\* Execution resumes at loc: the RETURN that waited to learn where is answered.
Completed(log, loc) ==
    [i \in DOMAIN log |->
        IF log[i].state = "pending"
        THEN [log[i] EXCEPT !.state = "done", !.actual = loc] ELSE log[i]]

Executed ==
    /\ trace' = Append(trace, Here)
    /\ UNCHANGED resumed

\* the statement behind the separator at offset k of the current line
AfterColon(k) ==
    IF k + 1 < Len(CurLine) THEN <<pc, k + 1>> ELSE <<NextPc(program, pc), 0>>

\* the statement that is about to run at the current safe point
AboutToRun ==
    IF tok = "Colon" THEN AfterColon(tokStart)
    ELSE IF phase = "pre" THEN Here
    ELSE <<NextPc(program, pc), 0>>

\* the statement that runs first when the parser starts at offset k
StartsAt(k) ==
    IF tokKindAt(CurLine, k) = "Colon" THEN AfterColon(k) ELSE <<pc, k>>

\* ---- how a statement ends ----

\* it returns to parseAndExecLine; the parser holds the token that follows
StatementDone(pos) ==
    /\ phase' = "post"
    /\ tok' = tokKindAt(CurLine, nextTokStart(CurLine, tokStart))
    /\ tokStart' = nextTokStart(CurLine, tokStart)
    /\ posInLine' = pos
    /\ UNCHANGED <<pc, running, stopped, contAvailable, lastError, diag,
                   nested>>

\* a diagnostic written to the terminal: its wording, the line it names
\* (0 when it names none) and the message of the exception
Diagnostic(kind, line, msg) == [kind |-> kind, line |-> line, msg |-> msg]

JumpSignal == "__JUMP__"

\* Where an iterator kept in a frame leads: to its line, or, when that line
\* was erased from the map since (a dangling iterator, undefined behaviour),
\* to any position of the map.
iteratorTargets(line) ==
    IF line = EndPc \/ line \in DOMAIN program THEN {line}
    ELSE DOMAIN program \cup {EndPc}

\* it throws the control signal __JUMP__: execute continues its loop at
\* (line, pos); executeImmediate catches it as a std::exception
Jump(line, pos) ==
    /\ pc' \in iteratorTargets(line)
    /\ posInLine' = pos
    /\ phase' = IF Immediate THEN "idle" ELSE "fetch"
    /\ diag' = IF Immediate
               THEN Append(diag, Diagnostic("Error", 0, JumpSignal))
               ELSE diag
    /\ nested' = <<>>
    /\ UNCHANGED <<tok, tokStart, running, stopped, contAvailable, lastError>>

Raise_rewind(e, pos) ==
    /\ phase' = "idle"
    /\ posInLine' = 0
    /\ nested' = <<>>
    /\ running' = FALSE
    /\ contAvailable' = TRUE
    /\ lastError' = e
    /\ diag' = Append(diag, Diagnostic("error in", pc, e))
    /\ UNCHANGED <<pc, stopped, tok, tokStart>>

\* it throws an error: execute reports it with the number of the line at pc
\* and returns to the prompt; executeImmediate only reports it
Raise(e, pos) ==
    /\ phase' = "idle"
    /\ posInLine' = pos
    /\ IF Immediate
       THEN /\ diag' = Append(diag, Diagnostic("Error", 0, e))
            /\ UNCHANGED <<running, contAvailable, lastError>>
       ELSE /\ running' = FALSE
            /\ contAvailable' = TRUE
            /\ lastError' = e
            /\ diag' = Append(diag, Diagnostic("error in", pc, e))
    /\ nested' = <<>>
    /\ UNCHANGED <<pc, stopped, tok, tokStart>>

\* Parser::jumpToLine; pos is posInLine at the call
jumpToLine(target, pos) ==
    IF target \in DOMAIN program THEN Jump(target, 0)
    ELSE Raise("Undefined line number", pos)

\* ---- Interpreter: RUN, CONT and the driving loop ----

runFromStart ==
    /\ AtPrompt
    /\ runs < MaxRuns
    /\ runs' = runs + 1
    /\ running' = TRUE
    /\ stopped' = FALSE
    /\ pc' = FirstPc(program)
    /\ posInLine' = 0
    /\ dataCacheBuilt' = TRUE
    /\ dataCache' = rebuildDataCache(program)
    /\ dataPtr' = 0
    /\ phase' = "fetch"
    /\ out' = <<>>
    /\ trace' = <<>>
    /\ resumed' = <<>>
    /\ lastError' = None
    /\ diag' = <<>>
    /\ sigint' = FALSE
    /\ UNCHANGED sdlVars
    /\ lastOp' = [op |-> "run", ln |-> 0, raw |-> <<>>]
    /\ UNCHANGED <<program, file, crashed, saved, arithVars, arrays, contAvailable,
                   varVars, stackVars, timerVars, tok, tokStart, nested,
                   frameTags>>

cont_atLineStart ==
    /\ AtPrompt
    /\ contAvailable
    /\ runs < MaxRuns
    /\ runs' = runs + 1
    /\ lastOp' = [op |-> "cont", ln |-> 0, raw |-> <<>>]
    /\ running' = TRUE
    /\ stopped' = FALSE
    /\ phase' = "fetch"
    /\ posInLine' = 0
    /\ lastError' = None
    /\ diag' = <<>>
    /\ sigint' = FALSE
    /\ UNCHANGED sdlVars
    /\ UNCHANGED <<program, file, crashed, saved, arithVars, arrays, pc,
                   contAvailable, varVars, dataVars, stackVars, timerVars, tok,
                   tokStart, nested, out, frameTags, resumed, trace>>

\* Interpreter::cont
cont ==
    /\ AtPrompt
    /\ lastOp' = [op |-> "cont", ln |-> 0, raw |-> <<>>]
    /\ IF ~contAvailable
       THEN /\ diag' = <<Diagnostic("Cannot CONTINUE", 0, None)>>
            /\ UNCHANGED <<runs, running, stopped, phase, lastError, sigint,
                           sdlVars>>
       ELSE /\ runs < MaxRuns
            /\ runs' = runs + 1
            /\ running' = TRUE
            /\ stopped' = FALSE
            /\ phase' = "fetch"
            /\ lastError' = None
            /\ diag' = <<>>
            /\ sigint' = FALSE
            /\ UNCHANGED sdlVars
    /\ UNCHANGED <<program, file, crashed, saved, arithVars, arrays, pc, posInLine,
                   contAvailable, varVars, dataVars, stackVars, timerVars, tok,
                   tokStart, nested, out, frameTags, resumed, trace>>

\* One turn of the loop of Interpreter::execute up to the construction of the
\* Parser for the line at pc.
execute ==
    /\ phase = "fetch"
    /\ IF ~running \/ stopped
       THEN /\ phase' = "idle"
            /\ UNCHANGED <<cursorVars, tok, tokStart, nested, resumed, diag, sigint,
                           sdlVars,
                           crashed>>
       ELSE IF sigint
       THEN /\ sigint' = FALSE
            /\ UNCHANGED sdlVars
            /\ diag' = Append(diag, Diagnostic("Break", 0, None))
            /\ running' = FALSE
            /\ stopped' = FALSE
            /\ contAvailable' = TRUE
            /\ phase' = "idle"
            /\ UNCHANGED <<pc, posInLine, tok, tokStart, nested, resumed,
                           crashed>>
       ELSE IF pc = EndPc
       THEN /\ running' = FALSE
            /\ contAvailable' = FALSE
            /\ phase' = "idle"
            /\ resumed' = Completed(resumed, <<EndPc, 0>>)
            /\ UNCHANGED <<pc, posInLine, stopped, tok, tokStart, nested, diag,
                           sigint,
                           sdlVars,
                           crashed>>
       ELSE LET start == IF posInLine > 0 /\ posInLine < Len(CurLine)
                         THEN posInLine ELSE 0
            IN /\ posInLine' = start
               /\ tokStart' = start
               /\ nested' = <<>>
               /\ tok' = tokKindAt(CurLine, start)
               /\ IF CurLine[start + 1] = Unexpected
                  THEN \* the Parser is constructed before the try block: the
                       \* ParseError of its first Lexer::next is caught by
                       \* nobody and the process terminates
                       /\ crashed' = TRUE
                       /\ phase' = "idle"
                       /\ UNCHANGED resumed
                  ELSE /\ phase' = "pre"
                       /\ resumed' = Completed(resumed, StartsAt(start))
                       /\ UNCHANGED crashed
               /\ UNCHANGED <<pc, running, stopped, contAvailable, diag,
                              sigint, sdlVars>>
    /\ UNCHANGED <<program, file, lastOp, saved, arithVars, arrays, runs, varVars,
                   dataVars, stackVars, timerVars, out, lastError, frameTags,
                   trace>>

\* The end of the loop body of Parser::parseAndExecLine, behind the safe
\* point after the statement: the next statement of the line, or the return
\* to execute, which steps to the next line.
parseAndExecLine ==
    /\ phase = "post"
    /\ nested = <<>>
    /\ NoInterrupt
    /\ IF tok = "Colon" /\ tokStart + 1 < Len(CurLine)
       THEN /\ tokStart' = tokStart + 1
            /\ tok' = tokKindAt(CurLine, tokStart + 1)
            /\ phase' = "pre"
            /\ UNCHANGED <<cursorVars, nested>>
       ELSE IF Immediate
       THEN /\ phase' = "idle"
            /\ UNCHANGED <<cursorVars, tok, tokStart, nested>>
       ELSE /\ pc' = NextPc(program, pc)
            /\ posInLine' = 0
            /\ phase' = "fetch"
            /\ UNCHANGED <<running, stopped, contAvailable, tok, tokStart,
                           nested>>
    /\ UNCHANGED <<sessionVars, varVars, dataVars, stackVars, timerVars, out,
                   lastError, diag, frameTags, resumed, trace>>

\* Parser::maybeFireIntervalInterrupt when it dispatches: the clock reads t,
\* not less than nextIntervalFire.
maybeFireIntervalInterrupt ==
    /\ phase \in {"pre", "post"}
    /\ nested = <<>>
    /\ Eligible
    /\ durationOf(intervalSeconds) > 0
    /\ \E t \in Max({now, nextIntervalFire})..MaxTime :
          /\ now' = t
          /\ nextIntervalFire' =
                nextFireAfter(nextIntervalFire, durationOf(intervalSeconds), t)
    /\ gosubStack' = Append(gosubStack, <<pc, tokStart>>)
    /\ frameTags' = Append(frameTags,
                           [isr |-> TRUE, dataPtr |-> dataPtr,
                            next |-> AboutToRun, inline |-> TRUE])
    /\ inIntervalISR' = TRUE
    /\ jumpToLine(intervalGosubLine, tokStart)
    /\ UNCHANGED <<sessionVars, varVars, dataVars, forStack, intervalArmed,
                   intervalEnabled, intervalSeconds, intervalGosubLine, out,
                   resumed, trace>>

\* ---- Parser: the statements ----

\* Parser::execOneStatement for what it handles itself: a ':' or the end of
\* the line (no statement), REM, END and STOP.
execOneStatement ==
    /\ phase = "pre"
    /\ LetThrough
    /\ \/ tok = "Colon"
       \/ tok = "Stmt" /\ CurStmt.op \in {"REM", "END", "STOP"}
    /\ phase' = "post"
    /\ IF tok = "Colon"
       THEN UNCHANGED <<tok, running, contAvailable, trace, resumed>>
       ELSE /\ tok' = "End"
            /\ Executed
            /\ IF CurStmt.op = "REM" THEN UNCHANGED <<running, contAvailable>>
               ELSE running' = FALSE /\ contAvailable' = FALSE
    /\ UNCHANGED <<sessionVars, pc, posInLine, stopped, tokStart, nested, varVars,
                   dataVars, stackVars, timerVars, out, lastError, diag,
                   frameTags>>

\* Parser::exec_PRINT of one numeric expression: a variable or a literal
exec_PRINT ==
    /\ Dispatching("PRINT")
    /\ out' = Append(out, IF CurStmt.var = "" THEN CurStmt.a
                          ELSE getVar(varStore, CurStmt.var))
    /\ StatementDone(posInLine)
    /\ Executed
    /\ UNCHANGED <<sessionVars, varVars, dataVars, stackVars, timerVars,
                   frameTags>>

\* Parser::exec_LET_or_ASSIGN of  var = a  (b = 0) or  var = var + a  (b = 1)
exec_LET_or_ASSIGN ==
    /\ Dispatching("LET")
    /\ LET v == IF CurStmt.b = 1 THEN getVar(varStore, CurStmt.var) + CurStmt.a
                ELSE CurStmt.a
           r == setVar(varStore, defInt, CurStmt.var, v)
       IN /\ varStore' = r.store
          /\ varTypes' = IF r.err = None
                         THEN setVarTypes(varTypes, defInt, {CurStmt.var})
                         ELSE varTypes
          /\ IF r.err = None THEN StatementDone(posInLine)
             ELSE Raise(r.err, posInLine)
    /\ Executed
    /\ UNCHANGED <<sessionVars, defInt, dataVars, stackVars, timerVars, out,
                   frameTags>>

\* a FOR that tests the limit on entry and leaves the line when the start is
\* past it
exec_FOR_tested ==
    /\ Dispatching("FOR")
    /\ LET s == CurStmt
           r == setVar(varStore, defInt, s.var, s.a)
           progress == markLineProgress(CurLine, tokStart)
           atEnd == tokKindAt(CurLine, nextTokStart(CurLine, tokStart)) = "End"
           frame == [var |-> s.var, endValue |-> s.b, step |-> s.c,
                     returnIt |-> IF atEnd THEN NextPc(program, pc) ELSE pc,
                     posInLine |-> IF atEnd THEN 0 ELSE progress]
       IN IF s.c = 0
          THEN Raise("STEP cannot be 0", posInLine)
               /\ UNCHANGED <<varStore, varTypes, forStack>>
          ELSE IF r.err # None
          THEN Raise(r.err, posInLine)
               /\ UNCHANGED <<varStore, varTypes, forStack>>
          ELSE IF (s.c > 0 /\ s.a > s.b) \/ (s.c < 0 /\ s.a < s.b)
          THEN /\ varStore' = r.store
               /\ varTypes' = setVarTypes(varTypes, defInt, {s.var})
               /\ phase' = "post"
               /\ tok' = "End"
               /\ tokStart' = Len(CurLine)
               /\ UNCHANGED <<cursorVars, lastError, diag, nested, forStack>>
          ELSE /\ varStore' = r.store
               /\ varTypes' = setVarTypes(varTypes, defInt, {s.var})
               /\ forStack' = Append(dropFrom(forStack, s.var), frame)
               /\ StatementDone(progress)
    /\ Executed
    /\ UNCHANGED <<sessionVars, defInt, dataVars, gosubStack, timerVars, out,
                   frameTags>>

\* Parser::exec_FOR of  FOR var = a TO b [STEP c]
exec_FOR ==
    /\ Dispatching("FOR")
    /\ LET s == CurStmt
           r == setVar(varStore, defInt, s.var, s.a)
           progress == markLineProgress(CurLine, tokStart)
           atEnd == tokKindAt(CurLine, nextTokStart(CurLine, tokStart)) = "End"
           frame == [var |-> s.var, endValue |-> s.b, step |-> s.c,
                     returnIt |-> IF atEnd THEN NextPc(program, pc) ELSE pc,
                     posInLine |-> IF atEnd THEN 0 ELSE progress]
       IN IF s.c = 0
          THEN Raise("STEP cannot be 0", posInLine) /\ UNCHANGED <<varStore, varTypes, forStack>>
          ELSE IF r.err # None
          THEN Raise(r.err, posInLine) /\ UNCHANGED <<varStore, varTypes, forStack>>
          ELSE /\ varStore' = r.store
               /\ varTypes' = setVarTypes(varTypes, defInt, {s.var})
               /\ forStack' = Append(dropFrom(forStack, s.var), frame)
               /\ StatementDone(progress)
    /\ Executed
    /\ UNCHANGED <<sessionVars, defInt, dataVars, gosubStack, timerVars, out,
                   frameTags>>

\* Parser::exec_NEXT of  NEXT [var]
exec_NEXT ==
    /\ Dispatching("NEXT")
    /\ LET idx == nextFrame(forStack, CurStmt.var)
       IN IF idx = 0
          THEN Raise("NEXT without FOR", posInLine) /\ UNCHANGED <<varStore, varTypes, forStack>>
          ELSE LET kept == SubSeq(forStack, 1, idx)
                   frame == forStack[idx]
                   cur == getVar(varStore, frame.var) + frame.step
                   r == setVar(varStore, defInt, frame.var, cur)
               IN /\ varStore' = r.store
                  /\ varTypes' = IF r.err = None
                                 THEN setVarTypes(varTypes, defInt, {frame.var})
                                 ELSE varTypes
                  /\ IF r.err # None
                     THEN Raise(r.err, posInLine) /\ forStack' = kept
                     ELSE IF ForContinues(frame.step, cur, frame.endValue)
                     THEN Jump(frame.returnIt, frame.posInLine) /\ forStack' = kept
                     ELSE /\ forStack' = SubSeq(kept, 1, idx - 1)
                          /\ StatementDone(posInLine)
    /\ Executed
    /\ UNCHANGED <<sessionVars, defInt, dataVars, gosubStack, timerVars, out,
                   frameTags>>

\* Parser::exec_IF of  IF var THEN line  (c = 1, the line in b) and of
\* IF var THEN statements, up to the first statement behind THEN
exec_IF ==
    /\ Dispatching("IF")
    /\ LET thenStmtStart == nextTokStart(CurLine, tokStart)
           truthy == getVar(varStore, CurStmt.var) # 0
       IN IF ~truthy
          THEN \* the lexer is driven to the end of the line
               /\ phase' = "post"
               /\ tok' = "End"
               /\ tokStart' = Len(CurLine)
               /\ UNCHANGED <<cursorVars, lastError, diag, nested>>
          ELSE IF CurStmt.c = 1
          THEN jumpToLine(CurStmt.b, posInLine)
          ELSE IF thenStmtStart >= Len(CurLine)
          THEN StatementDone(posInLine)
          ELSE \* a second Parser over the rest of the line
               /\ nested' = Append(nested, thenStmtStart)
               /\ tokStart' = thenStmtStart
               /\ tok' = tokKindAt(CurLine, thenStmtStart)
               /\ phase' = "pre"
               /\ UNCHANGED <<cursorVars, lastError, diag>>
    /\ Executed
    /\ UNCHANGED <<sessionVars, varVars, dataVars, stackVars, timerVars, out,
                   frameTags>>

\* The end of the loop body of exec_IF over the statements behind THEN: the
\* next of them, or the return of every nested Parser to the Parser of the
\* line, whose token becomes End while its tokenStart stays at thenStmtStart.
exec_IF_loop ==
    /\ phase = "post"
    /\ nested # <<>>
    /\ IF tok = "Colon" /\ tokStart + 1 < Len(CurLine)
       THEN /\ tokStart' = tokStart + 1
            /\ tok' = tokKindAt(CurLine, tokStart + 1)
            /\ phase' = "pre"
            /\ UNCHANGED nested
       ELSE /\ nested' = <<>>
            /\ tok' = "End"
            /\ tokStart' = nested[1]
            /\ phase' = "post"
    /\ UNCHANGED <<sessionVars, cursorVars, varVars, dataVars, stackVars,
                   timerVars, out, lastError, diag, frameTags, resumed, trace>>

\* Parser::exec_GOTO of  GOTO a  and of  GOSUB a
exec_GOTO(isGosub) ==
    /\ Dispatching(IF isGosub THEN "GOSUB" ELSE "GOTO")
    /\ LET pos == IF isGosub THEN markLineProgress(CurLine, tokStart)
                  ELSE posInLine
       IN /\ gosubStack' = IF isGosub THEN Append(gosubStack, <<pc, pos>>)
                           ELSE gosubStack
          /\ frameTags' =
                IF isGosub
                THEN Append(frameTags,
                            [isr |-> FALSE, dataPtr |-> dataPtr,
                             next |-> AfterColon(tokStart + 1),
                             inline |-> tokStart + 2 < Len(CurLine)])
                ELSE frameTags
          /\ jumpToLine(CurStmt.a, pos)
    /\ Executed
    /\ UNCHANGED <<sessionVars, varVars, dataVars, forStack, timerVars, out>>

\* Parser::exec_RETURN
exec_RETURN ==
    /\ Dispatching("RETURN")
    /\ trace' = Append(trace, Here)
    /\ IF gosubStack = <<>>
       THEN /\ Raise("RETURN without GOSUB", posInLine)
            /\ UNCHANGED <<gosubStack, frameTags, inIntervalISR, resumed>>
       ELSE LET frame == gosubStack[Len(gosubStack)]
                tag == frameTags[Len(frameTags)]
            IN /\ gosubStack' = SubSeq(gosubStack, 1, Len(gosubStack) - 1)
               /\ frameTags' = SubSeq(frameTags, 1, Len(frameTags) - 1)
               /\ inIntervalISR' = FALSE
               /\ Jump(frame[1], frame[2])
               /\ resumed' = Append(resumed,
                         [state |-> "pending", isr |-> tag.isr,
                          inline |-> tag.inline,
                          expected |-> tag.next, actual |-> <<0, 0>>,
                          savedDataPtr |-> tag.dataPtr, dataPtr |-> dataPtr])
    /\ UNCHANGED <<sessionVars, varVars, dataVars, forStack, scheduleVars, out>>

\* Parser::exec_DATA
exec_DATA ==
    /\ Dispatching("DATA")
    /\ StatementDone(posInLine)
    /\ Executed
    /\ UNCHANGED <<sessionVars, varVars, dataVars, stackVars, timerVars, out,
                   frameTags>>

\* Parser::exec_READ of  READ vars
exec_READ ==
    /\ Dispatching("READ")
    /\ LET cache == IF dataCacheBuilt THEN dataCache ELSE rebuildDataCache(program)
           ptr == IF dataCacheBuilt THEN dataPtr ELSE 0
           r == readLoop(CurStmt.vars, varStore, defInt, cache, ptr)
       IN /\ dataCache' = cache
          /\ dataCacheBuilt' = TRUE
          /\ dataPtr' = r.ptr
          /\ varStore' = r.store
          /\ varTypes' = setVarTypes(varTypes, defInt,
                 {CurStmt.vars[i] :
                      i \in 1..(Len(CurStmt.vars) - Len(r.left))})
          /\ IF r.err = None THEN StatementDone(posInLine)
             ELSE Raise(r.err, posInLine)
    /\ Executed
    /\ UNCHANGED <<sessionVars, defInt, stackVars, timerVars, out, frameTags>>

\* Parser::exec_RESTORE of  RESTORE [a]
exec_RESTORE ==
    /\ Dispatching("RESTORE")
    /\ LET cache == IF dataCacheBuilt THEN dataCache ELSE rebuildDataCache(program)
       IN /\ dataCache' = cache
          /\ dataCacheBuilt' = TRUE
          /\ dataPtr' = restoreData(cache, CurStmt.a)
    /\ StatementDone(posInLine)
    /\ Executed
    /\ UNCHANGED <<sessionVars, varVars, stackVars, timerVars, out, frameTags>>

\* Parser::exec_ON of  ON INTERVAL a GOSUB b ; the clock reads t
exec_ON ==
    /\ Dispatching("ON")
    /\ intervalSeconds' = Seconds(CurStmt.a, TicksPerSecond)
    /\ intervalGosubLine' = CurStmt.b
    /\ intervalArmed' = TRUE
    /\ \E t \in now..MaxTime :
          /\ now' = t
          /\ nextIntervalFire' =
                t + durationOf(Seconds(Max({0, CurStmt.a}), TicksPerSecond))
    /\ StatementDone(posInLine)
    /\ Executed
    /\ UNCHANGED <<sessionVars, varVars, dataVars, stackVars, intervalEnabled,
                   inIntervalISR, out, frameTags>>

\* Parser::exec_INTERVAL_CTRL of  INTERVAL ON | OFF | STOP  (the word in var)
exec_INTERVAL_CTRL ==
    /\ Dispatching("INTERVAL")
    /\ LET mode == CurStmt.var
           rearm == mode = "ON" /\ intervalArmed /\ intervalSeconds.num > 0
       IN /\ intervalEnabled' = (mode = "ON")
          /\ intervalArmed' = IF mode = "STOP" THEN FALSE ELSE intervalArmed
          /\ \E t \in (IF rearm THEN now..MaxTime ELSE {now}) :
                /\ now' = t
                /\ nextIntervalFire' = IF rearm
                                       THEN t + durationOf(intervalSeconds)
                                       ELSE nextIntervalFire
    /\ StatementDone(posInLine)
    /\ Executed
    /\ UNCHANGED <<sessionVars, varVars, dataVars, stackVars, intervalSeconds,
                   intervalGosubLine, inIntervalISR, out, frameTags>>

\* Parser::exec_DEFINT of  DEFINT var
exec_DEFINT ==
    /\ Dispatching("DEFINT")
    /\ defInt' = defInt \cup {CurStmt.var}
    /\ StatementDone(posInLine)
    /\ Executed
    /\ UNCHANGED <<sessionVars, varStore, varTypes, dataVars, stackVars, timerVars, out,
                   frameTags>>

\* Lexer::next behind a separator, called inside the try block of execute
\* (or of executeImmediate) when parseAndExecLine advances to the statement:
\* the character has no token and ParseError is thrown
Lexer_next ==
    /\ phase = "pre" /\ tok = "Stmt" /\ CurStmt = Unexpected
    /\ Raise("Unexpected character", posInLine)
    /\ Executed
    /\ UNCHANGED <<sessionVars, varVars, dataVars, stackVars, timerVars, out,
                   frameTags>>

\* run_editor_inplace as the EDIT command of the SDL front end calls it: the
\* program is rebuilt from the lines of the editor, each stored as typed,
\* where the operator wrote line ln anew; then resetAfterProgramEdit
run_editor_inplace(ln, line) ==
    /\ AtPrompt
    /\ program' = Assign(program, ln, line)
    /\ resetAfterProgramEdit
    /\ lastOp' = [op |-> "edit", ln |-> ln, raw |-> line]
    /\ UNCHANGED <<file, crashed, saved>>
    /\ runUntouched

\* the last, bare-expression case of execOneStatement for a statement that
\* begins with ')': parseExpression throws ParseError
parseExpression ==
    /\ Dispatching(")")
    /\ Raise("Expected expression", posInLine)
    /\ Executed
    /\ UNCHANGED <<sessionVars, varVars, dataVars, stackVars, timerVars, out,
                   frameTags>>

clearVars_keepData ==
    /\ varStore' = [v \in {} |-> 0]
    /\ varTypes' = [v \in {} |-> "Double"]
    /\ UNCHANGED dataVars

\* Env::clearVars (no array exists where the samples run CLEAR)
clearVars ==
    /\ varStore' = [v \in {} |-> 0]
    /\ varTypes' = [v \in {} |-> "Double"]
    /\ dataCacheBuilt' = FALSE
    /\ dataCache' = <<>>
    /\ dataPtr' = 0

\* Parser::exec_CLEAR of  CLEAR [a] : the stacks and the in-handler flag are
\* saved before Env::clearVars and written back after it
exec_CLEAR ==
    /\ Dispatching("CLEAR")
    /\ clearVars
    /\ forStack' = forStack
    /\ gosubStack' = gosubStack
    /\ inIntervalISR' = inIntervalISR
    /\ StatementDone(posInLine)
    /\ Executed
    /\ UNCHANGED <<sessionVars, defInt, scheduleVars, out, frameTags>>

\* ---- Interpreter: what else the prompt accepts ----

\* basic_sigint_handler: the operator asks for a break while a command runs
basic_sigint_handler ==
    /\ phase # "idle"
    /\ ~sigint
    /\ sigint' = TRUE
    /\ UNCHANGED sdlVars
    /\ UNCHANGED <<program, cursorVars, varVars, dataVars, stackVars, timerVars,
                   parserVars, out, lastError, diag, replVars, arithVars, arrays,
                   historyVars>>

\* Interpreter::executeImmediate up to the construction of the Parser for the
\* line typed (any line the REPL does not take as a command of its own)
executeImmediate(line) ==
    /\ AtPrompt
    /\ runs < MaxRuns
    /\ runs' = runs + 1
    /\ sigint' = FALSE
    /\ UNCHANGED sdlVars
    /\ lastOp' = [op |-> "immediate", ln |-> 0, raw |-> line]
    /\ diag' = <<>>
    /\ phase' = "pre"
    /\ tokStart' = 0
    /\ nested' = <<>>
    /\ tok' = tokKindAt(line, 0)
    /\ UNCHANGED <<program, cursorVars, varVars, dataVars, stackVars, timerVars,
                   out, lastError, file, crashed, saved, arithVars, arrays, frameTags,
                   resumed, trace>>

\* Interpreter::cmd_CLEAR, the REPL's own CLEAR
cmd_CLEAR ==
    /\ AtPrompt
    /\ clearVars
    /\ contAvailable' = FALSE
    /\ lastOp' = [op |-> "clear", ln |-> 0, raw |-> <<>>]
    /\ UNCHANGED <<program, pc, posInLine, running, stopped, defInt, stackVars,
                   timerVars, parserVars, out, lastError, diag, sigint, sdlVars,
                   file,
                   crashed, saved, arithVars, arrays, historyVars>>

\* Interpreter::storeProgramLine for a typed line given by its units: trim and
\* the keyword normalization of Part A work on the characters the units stand
\* for and leave the units as they are; no unit is a character the tokenizer
\* rejects.
storeProgramLine_units(ln, line) ==
    /\ AtPrompt
    /\ ln > 0
    /\ program' = IF line = <<>> THEN Erase(program, ln)
                  ELSE Assign(program, ln, line)
    /\ resetAfterProgramEdit
    /\ lastOp' = [op |-> "store", ln |-> ln, raw |-> line]
    /\ UNCHANGED <<file, crashed, saved>>
    /\ runUntouched

\* Interpreter::cmd_LOAD of a file that holds the records of the line map
\* file: the map is cleared, then every record is stored
cmd_LOAD_units ==
    /\ AtPrompt
    /\ program' = file
    /\ resetAfterProgramEdit
    /\ lastOp' = [op |-> "load", ln |-> 0, raw |-> <<>>]
    /\ UNCHANGED <<file, crashed, saved>>
    /\ runUntouched

NoOp == [op |-> "none", ln |-> 0, raw |-> <<>>]
NoOperands == [op |-> "none", a |-> 0, b |-> 0]

InitState ==
    /\ pc = EndPc
    /\ posInLine = 0
    /\ running = FALSE
    /\ stopped = FALSE
    /\ contAvailable = FALSE
    /\ varStore = [v \in {} |-> 0]
    /\ varTypes = [v \in {} |-> "Double"]
    /\ defInt = {}
    /\ forStack = <<>>
    /\ gosubStack = <<>>
    /\ dataCache = <<>>
    /\ dataPtr = 0
    /\ dataCacheBuilt = FALSE
    /\ intervalArmed = FALSE
    /\ intervalEnabled = FALSE
    /\ inIntervalISR = FALSE
    /\ intervalSeconds = Seconds(0, 1)
    /\ intervalGosubLine = 0
    /\ nextIntervalFire = 0
    /\ now = 0
    /\ phase = "idle"
    /\ tok = "End"
    /\ tokStart = 0
    /\ nested = <<>>
    /\ arrays = << >>
    /\ out = <<>>
    /\ lastError = None
    /\ diag = <<>>
    /\ sigint = FALSE
    /\ crashed = FALSE
    /\ lastOp = NoOp
    /\ saved = EmptyProgram
    /\ result = NoResult
    /\ frameTags = <<>>
    /\ resumed = <<>>
    /\ trace = <<>>
    /\ runs = 0
    /\ ui = "top"
    /\ programThread = "none"
    /\ termMutex = "free"
    /\ programRunning = FALSE
    /\ programDone = FALSE
    /\ debugStepping = FALSE
    /\ sdlEvents = <<>>
    /\ committed = ""
    /\ keys = 0

InitEnv == InitState /\ operands = NoOperands /\ file = NoFile

\* ------------------------------------------------------------------------
\* SpecEdit: numbered lines typed at the prompt, and DELETE
\* ------------------------------------------------------------------------

MaxPieces == 3     \* a typed text is at most this many pieces long
MaxLine == 2       \* line numbers 1..MaxLine

\* The pieces typed texts are made of: a keyword in lower case, a letter, a
\* blank, a quote, and a character the tokenizer does not know.
Pieces == { <<"i","f">>, <<"F">>, <<" ">>, <<"\"">>, <<"!">> }

RECURSIVE TextsUpTo(_)
TextsUpTo(k) ==
    IF k = 0 THEN {<<>>}
    ELSE LET T == TextsUpTo(k - 1)
         IN T \cup {t \o q : t \in T, q \in Pieces}

Texts == TextsUpTo(MaxPieces)

\* Longer texts, typed under the line numbers above 1.
SampleTexts ==
    { <<"r","e","m"," ","i","f"," ","!">>,
      <<"i","f"," ","x","=","\"","t","o","\""," ","t","h","e","n"," ","1","0">>,
      <<"P","r","i","n","t"," "," ","x","1",":","r","E","m",":","i","f">>,
      <<"1","0"," ","T","o"," ","2","e","1">> }

Lines == 1..MaxLine

StoreInputs == ({1} \X Texts) \cup ((Lines \ {1}) \X SampleTexts)

InitEdit == program = EmptyProgram /\ InitEnv

NextEdit ==
    \/ \E inp \in StoreInputs : storeProgramLine(inp[1], inp[2])
    \/ \E ln \in Lines : cmd_DELETE(ln)

SpecEdit == InitEdit /\ [][NextEdit]_vars

\* The offsets of t (1-based positions) inside a keyword token, as the
\* tokenizer reads t from offset i; nothing after REM is a token.
RECURSIVE KeywordPositions(_, _)
KeywordPositions(t, i) ==
    UNION { IF k.kind \in {"End", "Error"} THEN {}
            ELSE IF k.kind = "KW_REM" THEN (k.tokenStart + 1)..k.tokenEnd
            ELSE (IF k.kind = "Keyword" THEN (k.tokenStart + 1)..k.tokenEnd
                                        ELSE {})
                 \cup KeywordPositions(t, k.tokenEnd) :
            k \in {LexerNext(t, i)} }

\* u is t with each keyword token upper-cased and every other byte identical
KeywordsUpperedOnly(t, u) ==
    LET kw == KeywordPositions(t, 0)
    IN /\ Len(u) = Len(t)
       /\ \A k \in 1..Len(t) :
             u[k] = IF k \in kw THEN toupper(t[k]) ELSE t[k]

\* C1 (as claimed): for every line number n > 0, storing a non-empty text t
\* under n makes the program map n to t, trimmed, with each keyword token
\* upper-cased and every other byte identical; storing empty text removes
\* line n; in both cases every other line is unchanged.
C1_StoreMapsLine ==
    [][ (lastOp'.op = "store" /\ lastOp'.ln > 0) =>
          LET n == lastOp'.ln
              t == trim(lastOp'.raw)
          IN /\ IF t = <<>>
                THEN n \notin DOMAIN program'
                ELSE /\ n \in DOMAIN program'
                     /\ KeywordsUpperedOnly(t, program'[n])
             /\ \A k \in (DOMAIN program \cup DOMAIN program') \ {n} :
                   /\ k \in DOMAIN program /\ k \in DOMAIN program'
                   /\ program'[k] = program[k] ]_vars


\* ------------------------------------------------------------------------
\* SpecFile: SAVE and LOAD of a stored program, with edits in between
\* ------------------------------------------------------------------------

\* The programs the session starts from: every text typed under line 1 and a
\* longer one (or none) under line 2, stored by storeProgramLine.
StoredPrograms ==
    { storeProgramLineMap(
          storeProgramLineMap(EmptyProgram, 1, t1).program, MaxLine, t2).program :
      t1 \in Texts, t2 \in SampleTexts \cup {<<>>} }

InitFile == program \in StoredPrograms /\ InitEnv

NextFile ==
    \/ cmd_SAVE
    \/ cmd_LOAD
    \/ \E ln \in Lines : cmd_DELETE(ln)
    \/ \E ln \in Lines \ {1}, t \in SampleTexts : storeProgramLine(ln, t)

SpecFile == InitFile /\ [][NextFile]_vars

ArithOps == {"+", "-", "*", "\\", "MOD"}
SmallOperands == -7..7
EdgeOperands ==
    {Int16Min, Int16Min + 1, -16384, -257, -256, -182, -181, 181, 182, 256,
     16384, Int16Max - 1, Int16Max}
Operands == SmallOperands \cup EdgeOperands

InitArith ==
    /\ program = EmptyProgram
    /\ InitState
    /\ file = NoFile
    /\ operands \in [op : ArithOps, a : Operands, b : Operands,
                     ta : {"Int16"}, tb : {"Int16"}]

NextArith == applyOp

SpecArith == InitArith /\ [][NextArith]_vars

\* the mathematical result of + - * on the integers
Exact(op, a, b) ==
    CASE op = "+" -> a + b
      [] op = "-" -> a - b
      [] op = "*" -> a * b

\* q is the quotient of a by b truncated toward zero, r the remainder that
\* goes with it: a = q*b + r, |r| < |b|, and r is zero or has the sign of a.
IsTruncatedDivision(a, b, q, r) ==
    /\ a = q * b + r
    /\ abs(r) < abs(b)
    /\ r = 0 \/ (r < 0) = (a < 0)

\* C5: for Int16 operands, + - * return the exact result when it lies in
\* [-32768, 32767] and raise Overflow otherwise; \ returns the quotient
\* truncated toward zero, raises Overflow for -32768 \ -1 and Division by
\* zero for b = 0; MOD returns the remainder of that division as an Int16 and
\* raises Division by zero for b = 0.
C5_Int16Arithmetic ==
    result # NoResult =>
      LET op == operands.op
          a == operands.a
          b == operands.b
      IN /\ a \in Int16 /\ b \in Int16
         /\ op \in {"+", "-", "*"} =>
               IF Exact(op, a, b) \in Int16
               THEN result = Returned(Exact(op, a, b))
               ELSE result = Thrown(Overflow)
         /\ op = "\\" =>
               IF b = 0 THEN result = Thrown(DivisionByZero)
               ELSE IF a = Int16Min /\ b = -1 THEN result = Thrown(Overflow)
               ELSE /\ result.err = None
                    /\ result.val \in Int16
                    /\ \E r \in -abs(b)..abs(b) :
                          IsTruncatedDivision(a, b, result.val, r)
         /\ op = "MOD" =>
               IF b = 0 THEN result = Thrown(DivisionByZero)
               ELSE /\ result.err = None
                    /\ result.val \in Int16
                    /\ \E q \in -abs(a)..abs(a) :
                          IsTruncatedDivision(a, b, q, result.val)

\* a negative dividend with a nonzero remainder has been divided, and an
\* Int16 product has overflowed: the cases where truncation and the range
\* check matter
C5_Witness ==
    \/ /\ operands.op = "\\" /\ operands.a = -7 /\ operands.b = 2
       /\ result = Returned(-3)
    \/ /\ operands.op = "MOD" /\ operands.a = Int16Min /\ operands.b = -1
       /\ result = Returned(0)
    \/ /\ operands.op = "*" /\ operands.a = 182 /\ operands.b = 182
       /\ result = Thrown(Overflow)

\* ---- SpecMixed: \ and MOD with an operand that is not an Int16 ----
\* A Double operand is a number without a fraction, inside and outside the
\* Int16 range.

MixedOps == {"\\", "MOD"}
DoubleOperands ==
    {-100000, -40000, Int16Min - 1, Int16Min, -7, -2, -1, 0, 1, 2, 7,
     Int16Max, Int16Max + 1, 40000, 50000, 60000, 100000}
OperandTypes == {"Int16", "Double"}

InitMixed ==
    /\ program = EmptyProgram
    /\ InitState
    /\ file = NoFile
    /\ operands \in [op : MixedOps, a : DoubleOperands, b : DoubleOperands,
                     ta : OperandTypes, tb : OperandTypes]
    /\ operands.ta = "Double" \/ operands.tb = "Double"
    /\ operands.ta = "Int16" => operands.a \in Int16
    /\ operands.tb = "Int16" => operands.b \in Int16

NextMixed == applyOp

SpecMixed == InitMixed /\ [][NextMixed]_vars

\* C33: with an operand that is not an Int16 and a divisor that is not 0,
\* a \ b is the quotient truncated toward zero and a MOD b the remainder of
\* that division when the result lies in [-32768, 32767], and Overflow is
\* raised when it does not.
C33_MixedDivisionRangeChecked ==
    (result # NoResult /\ operands.b # 0) =>
        LET a == operands.a
            b == operands.b
            exact == IF operands.op = "MOD" THEN a - b * cdiv(a, b)
                     ELSE cdiv(a, b)
        IN IF exact \in Int16 THEN result = Returned(exact)
           ELSE result = Thrown(Overflow)

\* C33, the part about \ alone
C33_QuotientRangeChecked ==
    (result # NoResult /\ operands.b # 0 /\ operands.op = "\\") =>
        IF cdiv(operands.a, operands.b) \in Int16
        THEN result = Returned(cdiv(operands.a, operands.b))
        ELSE result = Thrown(Overflow)

\* 100000 \ 2 has raised Overflow
C33_Overflowed ==
    /\ operands.op = "\\" /\ operands.a = 100000 /\ operands.b = 2
    /\ result = Thrown(Overflow)

\* ---- SpecArray: the arrays of Env ----

\* the number of elements of an array created by its first reference
ImplicitElems == 11

\* what an operation on the arrays hands back: the exception it throws (or
\* None), and the value read
ArrayResult(op, name, n, err, value) ==
    [op |-> op, name |-> name, n |-> n, err |-> err, value |-> value]

\* a new array of size elements, each the zero of the type of the name
newArray(name, size) ==
    [type |-> varTypeForName(name, defInt), elems |-> [k \in 1..size |-> 0]]

ensureArrayImplicitDim_short(arrs, name) ==
    IF name \in DOMAIN arrs THEN arrs
    ELSE Assign(arrs, name, newArray(name, ImplicitElems - 1))
\* Env::ensureArrayImplicitDim
ensureArrayImplicitDim(arrs, name) ==
    IF name \in DOMAIN arrs THEN arrs
    ELSE Assign(arrs, name, newArray(name, ImplicitElems))

\* Env::dimArray, called by exec_DIM for one  name(upperBound)
dimArray(name, upperBound) ==
    /\ AtPrompt
    /\ IF upperBound < 0
       THEN /\ result' = ArrayResult("dim", name, upperBound, "Bad subscript", 0)
            /\ UNCHANGED arrays
       ELSE IF name \in DOMAIN arrays
       THEN /\ result' = ArrayResult("dim", name, upperBound,
                                     "Duplicate definition", 0)
            /\ UNCHANGED arrays
       ELSE /\ result' = ArrayResult("dim", name, upperBound, None, 0)
            /\ arrays' = Assign(arrays, name, newArray(name, upperBound + 1))
    /\ UNCHANGED <<program, cursorVars, varVars, dataVars, stackVars,
                   timerVars, parserVars, replVars, out, lastError, diag,
                   sigint, sdlVars, operands, historyVars>>

\* Env::getArrayElem, called by parsePrimary for  name(idx)
getArrayElem(name, idx) ==
    /\ AtPrompt
    /\ IF idx < 0
       THEN /\ result' = ArrayResult("get", name, idx, "Bad subscript", 0)
            /\ UNCHANGED arrays
       ELSE LET arrs == ensureArrayImplicitDim(arrays, name)
            IN /\ arrays' = arrs
               /\ result' =
                    IF idx >= Len(arrs[name].elems)
                    THEN ArrayResult("get", name, idx, "Subscript out of range", 0)
                    ELSE ArrayResult("get", name, idx, None,
                                     arrs[name].elems[idx + 1])
    /\ UNCHANGED <<program, cursorVars, varVars, dataVars, stackVars,
                   timerVars, parserVars, replVars, out, lastError, diag,
                   sigint, sdlVars, operands, historyVars>>

\* Env::setArrayElem, called by exec_LET_or_ASSIGN for  name(idx) = v
setArrayElem(name, idx, v) ==
    /\ AtPrompt
    /\ IF idx < 0
       THEN /\ result' = ArrayResult("set", name, idx, "Bad subscript", 0)
            /\ UNCHANGED arrays
       ELSE LET arrs == ensureArrayImplicitDim(arrays, name)
                conv == IF arrs[name].type = "Int16" THEN toInt16Checked(v)
                        ELSE Returned(v)
            IN IF idx >= Len(arrs[name].elems)
               THEN /\ arrays' = arrs
                    /\ result' = ArrayResult("set", name, idx,
                                             "Subscript out of range", 0)
               ELSE IF conv.err # None
               THEN /\ arrays' = arrs
                    /\ result' = ArrayResult("set", name, idx, conv.err, 0)
               ELSE /\ arrays' =
                         [arrs EXCEPT ![name].elems[idx + 1] = conv.val]
                    /\ result' = ArrayResult("set", name, idx, None, v)
    /\ UNCHANGED <<program, cursorVars, varVars, dataVars, stackVars,
                   timerVars, parserVars, replVars, out, lastError, diag,
                   sigint, sdlVars, operands, historyVars>>

ArrayNames == {"A", "B"}
UpperBounds == {-1, 0, 2}
Subscripts == {-1, 0, 2, 3, 10, 11}

InitArray ==
    /\ program = EmptyProgram
    /\ InitState
    /\ file = NoFile
    /\ operands = NoOperands

NextArray ==
    \/ \E name \in ArrayNames, ub \in UpperBounds : dimArray(name, ub)
    \/ \E name \in ArrayNames, idx \in Subscripts : getArrayElem(name, idx)
    \/ \E name \in ArrayNames, idx \in Subscripts : setArrayElem(name, idx, 7)

SpecArray == InitArray /\ [][NextArray]_vars

\* ---- claims about arrays ----

\* this step is an operation op on the arrays
ArrayOp(op) == "op" \in DOMAIN result' /\ result'.op = op
Referenced == ArrayOp("get") \/ ArrayOp("set")

\* the elements of every array that existed stay as they were
ElementsKept == \A name \in DOMAIN arrays : arrays'[name] = arrays[name]

SubscriptErrors == {"Bad subscript", "Subscript out of range"}

\* C31 (as claimed): the first indexed reference to a name without an array
\* creates the array with indices 0..10; DIM of a name that has an array
\* raises "Duplicate definition" and leaves the arrays as they are; an index
\* outside 0..upper bound raises a subscript error and changes no element.
C31_ArraysAsClaimed ==
    [][ /\ (Referenced /\ result'.name \notin DOMAIN arrays) =>
              /\ result'.name \in DOMAIN arrays'
              /\ DOMAIN arrays'[result'.name].elems = 1..11
        /\ (ArrayOp("dim") /\ result'.name \in DOMAIN arrays) =>
              /\ result'.err = "Duplicate definition"
              /\ arrays' = arrays
        /\ (Referenced /\ result'.name \in DOMAIN arrays'
            /\ result'.n \notin 0..(Len(arrays'[result'.name].elems) - 1)) =>
              /\ result'.err \in SubscriptErrors
              /\ ElementsKept
    ]_vars

\* C31 (amended): the first reference with an index that is not negative
\* creates the array with indices 0..10, also when the index is above 10;
\* DIM with a bound that is not negative of a name that has an array raises
\* "Duplicate definition" and leaves the arrays as they are; an index
\* outside 0..upper bound, and a negative one on a name without an array,
\* raises a subscript error and changes no element.
C31_ArrayDimensioning ==
    [][ /\ (Referenced /\ result'.name \notin DOMAIN arrays) =>
              IF result'.n >= 0
              THEN /\ result'.name \in DOMAIN arrays'
                   /\ DOMAIN arrays'[result'.name].elems = 1..11
              ELSE /\ result'.err = "Bad subscript"
                   /\ arrays' = arrays
        /\ (ArrayOp("dim") /\ result'.name \in DOMAIN arrays) =>
              /\ result'.err = IF result'.n >= 0 THEN "Duplicate definition"
                               ELSE "Bad subscript"
              /\ arrays' = arrays
        /\ (Referenced /\ result'.name \in DOMAIN arrays'
            /\ result'.n \notin 0..(Len(arrays'[result'.name].elems) - 1)) =>
              /\ result'.err \in SubscriptErrors
              /\ ElementsKept
    ]_vars

\* A(11) was referenced first: A exists with 11 elements, all zero, and the
\* reference failed
C31_Witness ==
    /\ "op" \in DOMAIN result
    /\ result.op = "get" /\ result.name = "A" /\ result.n = 11
    /\ result.err = "Subscript out of range"
    /\ "A" \in DOMAIN arrays
    /\ arrays["A"].elems = [k \in 1..11 |-> 0]
    /\ "B" \in DOMAIN arrays /\ Len(arrays["B"].elems) = 3
    /\ arrays["B"].elems[3] = 7

\* ---- SpecRun: stored programs are run ----

MaxFor == 3        \* the FOR loops of the samples run over 1..MaxFor

RECURSIVE Line(_)
Line(stmts) ==
    IF Len(stmts) <= 1 THEN stmts
    ELSE <<Head(stmts), Colon>> \o Line(Tail(stmts))

PrintVar(v) == [Stmt("PRINT") EXCEPT !.var = v]
PrintLit(n) == [Stmt("PRINT") EXCEPT !.a = n]
Add(v, n) == [Stmt("LET") EXCEPT !.var = v, !.a = n, !.b = 1]
For(v, a, b) == [Stmt("FOR") EXCEPT !.var = v, !.a = a, !.b = b, !.c = 1]
Next(v) == [Stmt("NEXT") EXCEPT !.var = v]
Goto(n) == [Stmt("GOTO") EXCEPT !.a = n]
Gosub(n) == [Stmt("GOSUB") EXCEPT !.a = n]
Data(items) == [Stmt("DATA") EXCEPT !.items = items]
Read(names) == [Stmt("READ") EXCEPT !.vars = names]
Restore(n) == [Stmt("RESTORE") EXCEPT !.a = n]
OnInterval(ticks, n) == [Stmt("ON") EXCEPT !.a = ticks, !.b = n]
Interval(mode) == [Stmt("INTERVAL") EXCEPT !.var = mode]
DefInt(v) == [Stmt("DEFINT") EXCEPT !.var = v]

\* 10 FOR v = a TO b : PRINT v : NEXT v
ForLine(v, a, b) == Line(<<For(v, a, b), PrintVar(v), Next(v)>>)

ForProgram(a, b) == (10 :> ForLine("I", a, b))

\*  5 DEFINT I
\* 10 FOR I = a TO b : PRINT I : NEXT I
IntForProgram(a, b) ==
    (5 :> Line(<<DefInt("I")>>)) @@ (10 :> ForLine("I", a, b))

\*  5 REM
\* 10 FOR I = 1 TO 2
\* 20 FOR J = 1 TO 2 : PRINT J
\* 30 GOTO 50
\* 40 NEXT J
\* 50 NEXT I
\* 60 PRINT I
NestedProgram ==
    (5 :> Line(<<Stmt("REM")>>)) @@
    (10 :> Line(<<For("I", 1, 2)>>)) @@
    (20 :> Line(<<For("J", 1, 2), PrintVar("J")>>)) @@
    (30 :> Line(<<Goto(50)>>)) @@
    (40 :> Line(<<Next("J")>>)) @@
    (50 :> Line(<<Next("I")>>)) @@
    (60 :> Line(<<PrintVar("I")>>))

\*  10 PRINT 1 : GOSUB 100 : GOSUB 100 : PRINT 2
\*  20 END
\* 100 PRINT 9 : RETURN
GosubProgram ==
    (10 :> Line(<<PrintLit(1), Gosub(100), Gosub(100), PrintLit(2)>>)) @@
    (20 :> Line(<<Stmt("END")>>)) @@
    (100 :> Line(<<PrintLit(9), Stmt("RETURN")>>))

\* 10 READ A, B : PRINT A : PRINT B
\* 20 DATA 3, 4
\* 30 READ A : PRINT A : RESTORE
\* 40 DATA 5
\* 50 READ A, B : PRINT A : PRINT B : READ A : PRINT A
\* 55 RESTORE 40 : READ A : PRINT A
\* 60 READ B
DataProgram ==
    (10 :> Line(<<Read(<<"A", "B">>), PrintVar("A"), PrintVar("B")>>)) @@
    (20 :> Line(<<Data(<<3, 4>>)>>)) @@
    (30 :> Line(<<Read(<<"A">>), PrintVar("A"), Restore(0)>>)) @@
    (40 :> Line(<<Data(<<5>>)>>)) @@
    (50 :> Line(<<Read(<<"A", "B">>), PrintVar("A"), PrintVar("B"),
                  Read(<<"A">>), PrintVar("A")>>)) @@
    (55 :> Line(<<Restore(40), Read(<<"A">>), PrintVar("A")>>)) @@
    (60 :> Line(<<Read(<<"B">>)>>))

\*  10 ON INTERVAL p GOSUB 100 : INTERVAL ON
\*  20 A = A + 1
\*  30 READ X : PRINT X
\*  40 INTERVAL OFF : PRINT A : END
\* 100 READ Y : GOSUB 200 : RETURN
\* 200 RETURN
\* 300 DATA 7, 8, 9
IsrProgram(p) ==
    (10 :> Line(<<OnInterval(p, 100), Interval("ON")>>)) @@
    (20 :> Line(<<Add("A", 1)>>)) @@
    (30 :> Line(<<Read(<<"X">>), PrintVar("X")>>)) @@
    (40 :> Line(<<Interval("OFF"), PrintVar("A"), Stmt("END")>>)) @@
    (100 :> Line(<<Read(<<"Y">>), Gosub(200), Stmt("RETURN")>>)) @@
    (200 :> Line(<<Stmt("RETURN")>>)) @@
    (300 :> Line(<<Data(<<7, 8, 9>>)>>))

\* CLEAR in the interval handler and inside a FOR loop of a subroutine
Clear(n) == [Stmt("CLEAR") EXCEPT !.a = n]

ClearProgram ==
    (5 :> Line(<<Read(<<"X">>)>>)) @@
    (10 :> Line(<<Add("A", 5), OnInterval(1, 100), Interval("ON")>>)) @@
    (20 :> Line(<<Gosub(200), PrintVar("A")>>)) @@
    (30 :> Line(<<Interval("OFF"), Stmt("END")>>)) @@
    (100 :> Line(<<Clear(1), Stmt("RETURN")>>)) @@
    (200 :> Line(<<For("I", 1, 0), Clear(1), Next("I"), Stmt("RETURN")>>)) @@
    (300 :> Line(<<Data(<<7, 8>>)>>))

\* GOSUB is the last statement of line 10
GosubLastProgram ==
    (5 :> Line(<<DefInt("A")>>)) @@
    (10 :> Line(<<Add("A", 20000), Gosub(100)>>)) @@
    (20 :> Line(<<PrintVar("A"), Stmt("END")>>)) @@
    (100 :> Line(<<Stmt("RETURN")>>))

ForBounds == {ab \in (1..MaxFor) \X (1..MaxFor) : ab[1] <= ab[2]}
Int16ForBounds == {<<1, 2>>, <<Int16Max - 1, Int16Max>>}

\* 10 A = 5 : PRINT A
\* 20 DEFINT A : PRINT A : A = A + 1 : PRINT A
DefIntProgram ==
    (10 :> Line(<<[Stmt("LET") EXCEPT !.var = "A", !.a = 5], Colon,
                     PrintVar("A")>>))
    @@ (20 :> Line(<<DefInt("A"), Colon, PrintVar("A"), Colon, Add("A", 1),
                     Colon, PrintVar("A")>>))

\* 10 DATA 3, 4
\* 20 READ A : RESTORE n : READ B : PRINT B
\* 30 DATA 5
RestoreProgram(n) ==
    (10 :> Line(<<Data(<<3, 4>>)>>)) @@
    (20 :> Line(<<Read(<<"A">>), Restore(n), Read(<<"B">>), PrintVar("B")>>)) @@
    (30 :> Line(<<Data(<<5>>)>>))

RestoreLines == {0, 10, 20, 30, 31}

SamplePrograms ==
    {ForProgram(ab[1], ab[2]) : ab \in ForBounds}
    \cup {IntForProgram(ab[1], ab[2]) : ab \in Int16ForBounds}
    \cup {NestedProgram, GosubProgram, DataProgram, ClearProgram,
          GosubLastProgram, DefIntProgram}
    \cup {IsrProgram(p) : p \in 1..2}
    \cup {RestoreProgram(n) : n \in RestoreLines}

InitRun == program \in SamplePrograms /\ InitEnv

NextRun ==
    \/ runFromStart
    \/ cont
    \/ execute
    \/ parseAndExecLine
    \/ maybeFireIntervalInterrupt
    \/ execOneStatement
    \/ exec_PRINT
    \/ exec_LET_or_ASSIGN
    \/ exec_FOR
    \/ exec_NEXT
    \/ \E isGosub \in BOOLEAN : exec_GOTO(isGosub)
    \/ exec_RETURN
    \/ exec_DATA
    \/ exec_READ
    \/ exec_RESTORE
    \/ exec_ON
    \/ exec_INTERVAL_CTRL
    \/ exec_DEFINT
    \/ exec_CLEAR

SpecRun == InitRun /\ [][NextRun]_vars

\* ---- the claims about runs ----

IsPrefix(s, t) == Len(s) <= Len(t) /\ s = SubSeq(t, 1, Len(s))

\* a run has been started and the interpreter is back at the prompt
RunStopped == phase = "idle" /\ runs > 0

\* the values a, a+1, ..., b
ForSeq(a, b) == [i \in 1..(b - a + 1) |-> a + i - 1]

\* line 10 of the program is  FOR v = a TO b : PRINT v : NEXT v
ForLineRuns(v, a, b) == 10 \in DOMAIN program /\ program[10] = ForLine(v, a, b)

\* a DEFINT statement of the program names v
DeclaredInt16(v) ==
    \E ln \in DOMAIN program : \E k \in DOMAIN program[ln] :
        program[ln][k].op = "DEFINT" /\ program[ln][k].var = v

\* the body has run once for each of a, a+1, ... so far, in this order; when
\* the run is over it has run for all of them, v is b+1, no FOR frame of v is
\* left and no error was raised
ForOutcome(v, a, b) ==
    /\ IsPrefix(out, ForSeq(a, b))
    /\ RunStopped =>
          /\ out = ForSeq(a, b)
          /\ getVar(varStore, v) = b + 1
          /\ frameIndex(forStack, v) = 0
          /\ lastError = None

AllForBounds == ForBounds \cup Int16ForBounds

Executes(op) == Dispatching(op) /\ trace' # trace

\* C3: a NEXT that names the variable of a frame below the top of the FOR
\* stack (control left the loops above it by GOTO) succeeds: no NEXT without
\* FOR is raised, every frame above that frame is discarded, the frames
\* below it stay, and the variable advances by the step.
C3_NextDropsInnerFrames ==
    [][ LET v == CurStmt.var
            idx == frameIndex(forStack, v)
        IN (Executes("NEXT") /\ v # "" /\ 0 < idx /\ idx < Len(forStack)) =>
              /\ lastError' # "NEXT without FOR"
              /\ Len(forStack') \in {idx - 1, idx}
              /\ \A i \in DOMAIN forStack' : forStack'[i] = forStack[i]
              /\ getVar(varStore', v) = getVar(varStore, v) + forStack[idx].step
      ]_vars

\* NEXT I of line 50, reached by the GOTO of line 30 with the frame of J on
\* top of the frame of I, has advanced I and left the frame of I alone on the
\* stack
C3_Witness ==
    /\ program = NestedProgram
    /\ trace # <<>> /\ trace[Len(trace)] = <<50, 0>>
    /\ Len(forStack) = 1 /\ forStack[1].var = "I"
    /\ getVar(varStore, "I") = 2
    /\ lastError = None

\* C4: the RETURN that matches a GOSUB with statements behind it on its line
\* resumes at the first of these statements.
C4_ReturnResumesAfterGosub ==
    \A i \in DOMAIN resumed :
        (resumed[i].state = "done" /\ ~resumed[i].isr /\ resumed[i].inline)
        => resumed[i].actual = resumed[i].expected

\* both GOSUBs of line 10 have returned, the second one parsed in a line that
\* was entered at an offset, and the run printed 1 9 9 2
C4_Witness ==
    /\ program = GosubProgram
    /\ RunStopped
    /\ out = <<1, 9, 9, 2>>
    /\ Len(resumed) = 2
    /\ resumed[1].actual = <<10, 4>> /\ resumed[2].actual = <<10, 6>>
    /\ trace = <<<<10, 0>>, <<10, 2>>, <<100, 0>>, <<100, 2>>, <<10, 4>>,
                 <<100, 0>>, <<100, 2>>, <<10, 6>>, <<20, 0>>>>

\* the DATA items of the program as (line, unit, item)
DataPositions ==
    {p \in (DOMAIN program) \X (1..9) \X (1..9) :
        /\ p[2] \in DOMAIN program[p[1]]
        /\ program[p[1]][p[2]].op = "DATA"
        /\ p[3] \in DOMAIN program[p[1]][p[2]].items}

Before(p, q) ==
    \/ p[1] < q[1]
    \/ p[1] = q[1] /\ p[2] < q[2]
    \/ p[1] = q[1] /\ p[2] = q[2] /\ p[3] < q[3]

\* the cache holds the DATA items in ascending line order, left to right
CacheInProgramOrder ==
    dataCacheBuilt =>
        /\ Len(dataCache) = Cardinality(DataPositions)
        /\ \A p \in DataPositions :
              dataCache[Cardinality({q \in DataPositions : Before(q, p)}) + 1]
                 = [line |-> p[1], raw |-> program[p[1]][p[2]].items[p[3]]]

C7_HandlerResumesAtInterruption ==
    \A i \in DOMAIN resumed :
        (resumed[i].state = "done" /\ resumed[i].isr)
        => resumed[i].actual = resumed[i].expected

\* C8 (as claimed): right after the RETURN of the interval handler the DATA
\* read pointer is what it was at the dispatch.
C8_HandlerRestoresDataPointer ==
    \A i \in DOMAIN resumed :
        resumed[i].isr => resumed[i].dataPtr = resumed[i].savedDataPtr

\* C10 (as claimed): while the frame of a dispatch is on the GOSUB stack no
\* second dispatch occurs.
C10_HandlerNotReentered ==
    Cardinality({i \in DOMAIN frameTags : frameTags[i].isr}) <= 1


\* ------------------------------------------------------------------------
\* SpecSession: a session at the prompt. Programs are run, broken into with
\* Ctrl+C and continued; lines are stored, deleted and loaded; statements are
\* typed in immediate mode.
\* ------------------------------------------------------------------------

\* a statement that begins with ')'
Bad == Stmt(")")

\* line 20 reads, prints and then fails in its third statement
ErrorProgram(bad) ==
    (10 :> Line(<<Data(<<7, 8>>)>>)) @@
    (20 :> Line(<<Read(<<"X">>), PrintVar("X"), bad, PrintLit(3)>>)) @@
    (30 :> Line(<<PrintLit(4)>>))

Failing == {Goto(999), Bad, Stmt("RETURN")}

\* every statement that raises the jump signal, in a program that ends
JumpProgram ==
    (5 :> Line(<<DefInt("N")>>)) @@
    (10 :> Line(<<For("I", 1, 2), Gosub(100), Next("I")>>)) @@
    (20 :> Line(<<Goto(40)>>)) @@
    (30 :> Line(<<PrintLit(0)>>)) @@
    (40 :> Line(<<PrintVar("I"), Stmt("END")>>)) @@
    (100 :> Line(<<Stmt("RETURN")>>))

SessionPrograms ==
    {ErrorProgram(bad) : bad \in Failing} \cup {JumpProgram}

\* the numbered lines typed, as (line number, units); no units: the line is
\* deleted
TypedLines == { <<20, Line(<<PrintLit(1)>>)>>, <<25, Line(<<PrintLit(2)>>)>> }

\* the lines written in the editor: a character without a token begins
\* line 30, or follows its first statement
EditedLines ==
    { <<30, Line(<<Unexpected>>)>>, <<30, Line(<<PrintLit(4), Unexpected>>)>> }

\* the lines typed in immediate mode
ImmediateLines ==
    { Line(<<Goto(10)>>), Line(<<Gosub(999)>>), Line(<<Bad>>),
      Line(<<PrintLit(1), Clear(1)>>) }

InitSession ==
    /\ program \in SessionPrograms
    /\ file = JumpProgram
    /\ InitState
    /\ operands = NoOperands

NextSession ==
    \/ runFromStart
    \/ cont
    \/ execute
    \/ parseAndExecLine
    \/ execOneStatement
    \/ exec_PRINT
    \/ exec_FOR
    \/ exec_NEXT
    \/ \E isGosub \in BOOLEAN : exec_GOTO(isGosub)
    \/ exec_RETURN
    \/ exec_DATA
    \/ exec_READ
    \/ exec_DEFINT
    \/ exec_CLEAR
    \/ parseExpression
    \/ basic_sigint_handler
    \/ \E line \in ImmediateLines : executeImmediate(line)
    \/ cmd_CLEAR
    \/ cmd_DELETE(30)
    \/ \E inp \in TypedLines : storeProgramLine_units(inp[1], inp[2])
    \/ cmd_LOAD_units
    \/ \E inp \in EditedLines : run_editor_inplace(inp[1], inp[2])
    \/ Lexer_next

SpecSession == InitSession /\ [][NextSession]_vars


\* ---- claims about a session ----

EditCommands == {"store", "delete", "load", "edit"}

\* the prompt right after a command that edited the program
AfterEdit == lastOp.op \in EditCommands /\ ~crashed

Refused == <<Diagnostic("Cannot CONTINUE", 0, None)>>

\* C11: right after a line was stored, replaced or deleted, or a program was
\* loaded, pc is at the end of the program with offset 0, running, stopped
\* and contAvailable are false, the DATA cache is stale with read pointer 0;
\* a CONT typed next is refused: it writes Cannot CONTINUE, executes no
\* statement and changes nothing of the run state.
C11_EditInvalidatesCursor ==
    /\ [](AfterEdit =>
            /\ pc = EndPc /\ posInLine = 0
            /\ ~running /\ ~stopped /\ ~contAvailable
            /\ ~dataCacheBuilt /\ dataPtr = 0)
    /\ [][ (AfterEdit /\ lastOp'.op = "cont") =>
              /\ diag' = Refused
              /\ phase' = "idle"
              /\ UNCHANGED <<cursorVars, varVars, dataVars, stackVars, out,
                             trace, runs>>
       ]_vars

\* a run read and printed a DATA item and halted in GOTO 999 with CONT
\* available; then line 25 was typed, and the CONT after it was refused
C11_Witness ==
    /\ lastOp.op = "cont"
    /\ diag = Refused
    /\ lastError = "Undefined line number"
    /\ out = <<7>>
    /\ 25 \in DOMAIN program
    /\ pc = EndPc
    /\ ~contAvailable

\* the statement the switch of execOneStatement is about to run raises an
\* error, and which
Failure ==
    IF CurStmt.op \in {"GOTO", "GOSUB"} /\ CurStmt.a \notin DOMAIN program
    THEN "Undefined line number"
    ELSE IF CurStmt.op = ")" THEN "Expected expression"
    ELSE IF CurStmt = Unexpected THEN "Unexpected character"
    ELSE IF CurStmt.op = "RETURN" /\ gosubStack = <<>>
    THEN "RETURN without GOSUB"
    ELSE IF CurStmt.op = "NEXT" /\ nextFrame(forStack, CurStmt.var) = 0
    THEN "NEXT without FOR"
    ELSE None

\* a statement of the running stored program raises an error in this step
FailsInProgram ==
    /\ ~Immediate
    /\ phase = "pre" /\ tok = "Stmt" /\ NoInterrupt
    /\ Failure # None
    /\ trace' # trace

\* the driving loop is about to read the first token of the line at pc, or
\* of the rest of it, and the Lexer has no token for the character there
FailsInLexer ==
    /\ ~Immediate
    /\ phase = "fetch" /\ running /\ ~stopped /\ ~sigint /\ pc # EndPc
    /\ CurLine[(IF posInLine > 0 /\ posInLine < Len(CurLine)
                THEN posInLine ELSE 0) + 1] = Unexpected
    /\ phase' # phase

\* C12 (as claimed): when a statement of a running stored program raises a
\* lexical, syntax or runtime error the driving loop returns at that
\* statement (no later statement runs before the next command) with running
\* false and contAvailable true, pc still at the line of the statement, and
\* it writes one diagnostic, which names that line; a RUN or CONT writes at
\* most one diagnostic.
C12_ErrorHaltsRun ==
    /\ [][ (FailsInProgram \/ FailsInLexer) =>
              /\ phase' = "idle"
              /\ ~running' /\ contAvailable'
              /\ pc' = pc
              /\ out' = out
              /\ Len(diag') = Len(diag) + 1
              /\ diag'[Len(diag')].kind = "error in"
              /\ diag'[Len(diag')].line = pc
              /\ ~crashed'
       ]_vars
    /\ [](lastOp.op \in {"run", "cont"} => Len(diag) <= 1)

\* C13 (as claimed): the jump signal is never written as a diagnostic,
\* neither by a run of the stored program nor by an immediate statement.
C13_JumpSignalNotAnError ==
    \A i \in DOMAIN diag : diag[i].msg # JumpSignal

\* an immediate statement reports an error in this step
FailsImmediate ==
    /\ Immediate
    /\ Len(diag') = Len(diag) + 1
    /\ diag'[Len(diag')].msg # JumpSignal

\* C14 (as claimed): an immediate statement that fails leaves running,
\* stopped, contAvailable and the cursor (pc, posInLine) as they were.
C14_ImmediateErrorKeepsCursor ==
    [][FailsImmediate => UNCHANGED <<running, stopped, contAvailable, pc,
                                     posInLine>>]_vars

\* the driving loop observes the stop flag in this step
BreakObserved ==
    phase = "fetch" /\ running /\ ~stopped /\ sigint /\ phase' = "idle"

\* the prompt right after a break
JustBroke ==
    /\ phase = "idle"
    /\ lastOp.op \in {"run", "cont"}
    /\ diag # <<>> /\ diag[Len(diag)].kind = "Break"

\* the statements of a whole run of JumpProgram, in order
JumpTrace ==
    << <<5, 0>>, <<10, 0>>, <<10, 2>>, <<100, 0>>, <<10, 4>>, <<10, 2>>,
       <<100, 0>>, <<10, 4>>, <<20, 0>>, <<40, 0>>, <<40, 2>> >>

\* C16: the stop flag is observed between statements: the run stops with
\* contAvailable true and running false, and the cursor, the variables, both
\* stacks and the statements executed so far are unchanged; a CONT typed
\* next re-enters the driving loop with all of them unchanged, so a run of
\* JumpProgram that was broken into once and continued executes the
\* statements of an unbroken run, each once and in order.
C16_BreakAndContinue ==
    /\ [][ BreakObserved =>
              /\ ~running' /\ ~stopped' /\ contAvailable' /\ ~sigint'
              /\ UNCHANGED <<pc, posInLine, varVars, stackVars, dataVars,
                             trace, out>>
       ]_vars
    /\ [][ (JustBroke /\ lastOp'.op = "cont") =>
              /\ phase' = "fetch" /\ running' /\ ~stopped'
              /\ UNCHANGED <<pc, posInLine, varVars, stackVars, dataVars,
                             trace, out>>
       ]_vars
    /\ [](( /\ program = JumpProgram
            /\ lastOp.op = "cont" /\ runs = 2 /\ diag = <<>>
            /\ phase = "idle" /\ trace # <<>> /\ trace[1] = <<5, 0>>)
          => trace = JumpTrace /\ out = <<3>>)

\* a run of JumpProgram was broken into inside its loop, where NEXT had
\* jumped back into the middle of line 10, and CONT has just been typed
C16_Witness ==
    /\ program = JumpProgram
    /\ lastOp.op = "cont" /\ runs = 2 /\ diag = <<>>
    /\ phase = "fetch"
    /\ pc = 10 /\ posInLine > 0
    /\ forStack # <<>>
    /\ contAvailable /\ running


\* ---- claims about CLEAR and about a GOSUB that ends its line ----

C20_ReturnAfterLastGosub ==
    \A i \in DOMAIN resumed :
        (resumed[i].state = "done" /\ ~resumed[i].isr /\ ~resumed[i].inline)
        => resumed[i].actual = resumed[i].expected


\* ---- claims about frames, loops and transfers ----

\* the frame on top of the GOSUB stack was pushed by an interval dispatch
TopIsInterrupt == frameTags # <<>> /\ frameTags[Len(frameTags)].isr

\* C21 (as claimed): a RETURN that pops the frame of a dispatch clears the
\* in-handler flag and sets the DATA read pointer to what it was at the
\* dispatch; a RETURN that pops the frame of a GOSUB leaves both as they are.
C21_ReturnByFrameKind ==
    [][ (Executes("RETURN") /\ gosubStack # <<>>) =>
           IF TopIsInterrupt
           THEN /\ ~inIntervalISR'
                /\ dataPtr' = frameTags[Len(frameTags)].dataPtr
           ELSE UNCHANGED <<inIntervalISR, dataPtr>>
    ]_vars

\* ---- SpecFlow: loops, IF and transfers of control ----

ForStep(v, a, b, c) == [For(v, a, b) EXCEPT !.c = c]
LetStmt(v, n) == [Stmt("LET") EXCEPT !.var = v, !.a = n]
IfThen(v) == [Stmt("IF") EXCEPT !.var = v]
IfGoto(v, n) == [Stmt("IF") EXCEPT !.var = v, !.b = n, !.c = 1]

\* 10 FOR I = 1 TO 2
\* 20 FOR J = 1 TO 2
\* 30 FOR i = 1 TO 1
\* 40 PRINT i : NEXT
\* 50 NEXT I
DupForProgram ==
    (10 :> Line(<<For("I", 1, 2)>>)) @@
    (20 :> Line(<<For("J", 1, 2)>>)) @@
    (30 :> Line(<<For("i", 1, 1)>>)) @@
    (40 :> Line(<<PrintVar("i"), Next("")>>)) @@
    (50 :> Line(<<Next("I")>>))

\* 10 FOR K = a TO b STEP c : PRINT K : NEXT K
\* 20 PRINT K
StepForProgram(a, b, c) ==
    (10 :> Line(<<ForStep("K", a, b, c), PrintVar("K"), Next("K")>>)) @@
    (20 :> Line(<<PrintVar("K")>>))

StepForInputs ==
    {abc \in (0..MaxFor) \X (0..MaxFor) \X {-2, -1, 2} :
        IF abc[3] > 0 THEN abc[1] <= abc[2] ELSE abc[1] >= abc[2]}

\* loops whose start is past the limit
PastLimitInputs == {<<2, 1, 2>>, <<3, 0, 1>>, <<1, 2, -1>>, <<0, 3, -2>>}

\* 10 FOR I = 1 TO 1 : PRINT I : NEXT J
NextErrProgram ==
    (10 :> Line(<<For("I", 1, 1), PrintVar("I"), Next("J")>>))

\*  10 FOR I = 1 TO 1 : GOSUB 100 : PRINT 1 : RETURN
\* 100 RETURN
ReturnErrProgram ==
    (10 :> Line(<<For("I", 1, 1), Gosub(100), PrintLit(1), Stmt("RETURN")>>)) @@
    (100 :> Line(<<Stmt("RETURN")>>))

\*  10 A = 1 : GOSUB 100
\* 100 NEXT
BareNextErrProgram ==
    (10 :> Line(<<LetStmt("A", 1), Gosub(100)>>)) @@
    (100 :> Line(<<Next("")>>))

\*  10 A = a
\*  20 PRINT 0 : IF A THEN PRINT 1 : GOSUB 100 : PRINT 2
\*  30 PRINT 3
\*  40 END
\* 100 PRINT 9 : RETURN
IfProgram(a) ==
    (10 :> Line(<<LetStmt("A", a)>>)) @@
    (20 :> <<PrintLit(0), Colon, IfThen("A")>>
           \o Line(<<PrintLit(1), Gosub(100), PrintLit(2)>>)) @@
    (30 :> Line(<<PrintLit(3)>>)) @@
    (40 :> Line(<<Stmt("END")>>)) @@
    (100 :> Line(<<PrintLit(9), Stmt("RETURN")>>))

\* 10 A = a
\* 20 IF A THEN n
\* 30 PRINT 3
\* 40 END
IfGotoProgram(a, n) ==
    (10 :> Line(<<LetStmt("A", a)>>)) @@
    (20 :> Line(<<IfGoto("A", n)>>)) @@
    (30 :> Line(<<PrintLit(3)>>)) @@
    (40 :> Line(<<Stmt("END")>>))

\*  10 A = a : ON INTERVAL p GOSUB 100 : INTERVAL ON
\*  20 IF A THEN PRINT 1 : PRINT 2
\*  30 INTERVAL OFF : END
\* 100 RETURN
IfTimerProgram(a, p) ==
    (10 :> Line(<<LetStmt("A", a), OnInterval(p, 100), Interval("ON")>>)) @@
    (20 :> <<IfThen("A")>> \o Line(<<PrintLit(1), PrintLit(2)>>)) @@
    (30 :> Line(<<Interval("OFF"), Stmt("END")>>)) @@
    (100 :> Line(<<Stmt("RETURN")>>))

\* 10 PRINT 1 : GOTO 99 : PRINT 2      (or GOSUB 99)
\* 20 END
MissingLineProgram(isGosub) ==
    (10 :> Line(<<PrintLit(1), IF isGosub THEN Gosub(99) ELSE Goto(99),
                  PrintLit(2)>>)) @@
    (20 :> Line(<<Stmt("END")>>))

\* 10 ON INTERVAL 1 GOSUB 99 : INTERVAL ON
\* 20 PRINT 1
\* 30 END
MissingHandlerProgram ==
    (10 :> Line(<<OnInterval(1, 99), Interval("ON")>>)) @@
    (20 :> Line(<<PrintLit(1)>>)) @@
    (30 :> Line(<<Stmt("END")>>))

\*  10 INTERVAL ON : ON INTERVAL 2 GOSUB 200 : INTERVAL OFF
\*  20 ON INTERVAL 1 GOSUB 100 : INTERVAL ON
\*  30 INTERVAL STOP : PRINT 1
\*  40 END
\* 100 RETURN
\* 200 RETURN
TimerCtrlProgram ==
    (10 :> Line(<<Interval("ON"), OnInterval(2, 200), Interval("OFF")>>)) @@
    (20 :> Line(<<OnInterval(1, 100), Interval("ON")>>)) @@
    (30 :> Line(<<Interval("STOP"), PrintLit(1)>>)) @@
    (40 :> Line(<<Stmt("END")>>)) @@
    (100 :> Line(<<Stmt("RETURN")>>)) @@
    (200 :> Line(<<Stmt("RETURN")>>))

\*  10 ON INTERVAL 1 GOSUB 100 : INTERVAL ON
\*  20 PRINT 1 : END : PRINT 2      (or STOP)
\*  30 PRINT 3
\* 100 RETURN
EndProgram(op) ==
    (10 :> Line(<<OnInterval(1, 100), Interval("ON")>>)) @@
    (20 :> Line(<<PrintLit(1), Stmt(op), PrintLit(2)>>)) @@
    (30 :> Line(<<PrintLit(3)>>)) @@
    (100 :> Line(<<Stmt("RETURN")>>))

FlowPrograms ==
    {DupForProgram, NextErrProgram, ReturnErrProgram, BareNextErrProgram,
     MissingHandlerProgram, TimerCtrlProgram}
    \cup {EndProgram(op) : op \in {"END", "STOP"}}
    \cup {MissingLineProgram(isGosub) : isGosub \in BOOLEAN}
    \cup {IfProgram(a) : a \in 0..1}
    \cup {IfGotoProgram(a, n) : a \in 0..1, n \in {40, 99}}
    \cup {IfTimerProgram(a, p) : a \in 0..1, p \in 1..2}
    \cup {StepForProgram(abc[1], abc[2], abc[3]) :
              abc \in StepForInputs \cup PastLimitInputs}

InitFlow == program \in FlowPrograms /\ InitEnv

NextFlow ==
    \/ runFromStart
    \/ execute
    \/ parseAndExecLine
    \/ maybeFireIntervalInterrupt
    \/ execOneStatement
    \/ exec_PRINT
    \/ exec_LET_or_ASSIGN
    \/ exec_FOR
    \/ exec_NEXT
    \/ \E isGosub \in BOOLEAN : exec_GOTO(isGosub)
    \/ exec_RETURN
    \/ exec_IF
    \/ exec_IF_loop
    \/ exec_ON
    \/ exec_INTERVAL_CTRL

SpecFlow == InitFlow /\ [][NextFlow]_vars

\* the frame a FOR statement pushes
pushedFrame == forStack'[Len(forStack')]

\* C22: the FOR stack never holds two frames whose control variables have the
\* same name, upper and lower case taken as equal; and a FOR whose variable
\* has a frame on the stack removes that frame and every frame above it,
\* then pushes its own.
C22_OneFramePerVariable ==
    /\ [](\A i, j \in DOMAIN forStack :
             upperName(forStack[i].var) = upperName(forStack[j].var) => i = j)
    /\ [][ (Executes("FOR") /\ phase' = "post"
            /\ \E k \in DOMAIN forStack :
                  upperName(forStack[k].var) = upperName(CurStmt.var))
           => \E k \in DOMAIN forStack :
                 /\ upperName(forStack[k].var) = upperName(CurStmt.var)
                 /\ Len(forStack') = k
                 /\ SubSeq(forStack', 1, k - 1) = SubSeq(forStack, 1, k - 1)
                 /\ pushedFrame.var = CurStmt.var
                 /\ pushedFrame.endValue = CurStmt.b
       ]_vars

\* FOR i has run with the frames of I and J on the stack
C22_Witness ==
    /\ program = DupForProgram
    /\ trace = <<<<10, 0>>, <<20, 0>>, <<30, 0>>>>
    /\ Len(forStack) = 1
    /\ forStack[1].var = "i"

NextUnmatched ==
    \/ forStack = <<>>
    \/ /\ CurStmt.var # ""
       /\ \A i \in DOMAIN forStack :
             upperName(forStack[i].var) # upperName(CurStmt.var)

\* C24: RETURN with no frame on the GOSUB stack raises "RETURN without
\* GOSUB"; NEXT with no frame on the FOR stack, or naming a variable that has
\* none, raises "NEXT without FOR"; the FOR stack, the GOSUB stack, the
\* variables and the cursor are the same after the failing statement as
\* before it.
C24_FailedReturnNextChangeNothing ==
    [][ /\ (Executes("RETURN") /\ gosubStack = <<>>) =>
              /\ lastError' = "RETURN without GOSUB"
              /\ phase' = "idle"
              /\ UNCHANGED <<forStack, gosubStack, varStore, pc, posInLine>>
        /\ (Executes("NEXT") /\ NextUnmatched) =>
              /\ lastError' = "NEXT without FOR"
              /\ phase' = "idle"
              /\ UNCHANGED <<forStack, gosubStack, varStore, pc, posInLine>>
    ]_vars

\* NEXT J has failed inside the loop of I, behind the position FOR marked
C24_Witness ==
    /\ program = NextErrProgram
    /\ lastError = "NEXT without FOR"
    /\ Len(forStack) = 1
    /\ varStore["I"] = 1
    /\ posInLine = 2

C24_ReturnCase ==
    /\ program = ReturnErrProgram
    /\ lastError = "RETURN without GOSUB"
    /\ Len(forStack) = 1
    /\ posInLine = 4

\* the lines  IF var THEN statements  of the program, and where IF stands
IfLines ==
    {ln \in DOMAIN program :
        \E k \in DOMAIN program[ln] :
            program[ln][k].op = "IF" /\ program[ln][k].c = 0}
IfOffset(ln) ==
    Min({k \in DOMAIN program[ln] : program[ln][k].op = "IF"}) - 1

\* the offsets of the statements of line ln that were executed, in order
RECURSIVE executedOn(_, _)
executedOn(log, ln) ==
    IF log = <<>> THEN <<>>
    ELSE (IF Head(log)[1] = ln THEN <<Head(log)[2]>> ELSE <<>>)
         \o executedOn(Tail(log), ln)

\* the offsets of the statements behind THEN
thenOffsets(ln) ==
    {k \in IfOffset(ln) + 1 .. Len(program[ln]) - 1 :
        program[ln][k + 1].op # ":"}

\* C25 (as claimed): of a line  IF c THEN s1 : s2 ...  no statement is
\* executed twice or out of order; when c is false none of s1, s2, ... is
\* executed; when c is true and the run has come to the line that follows,
\* each of s1, s2, ... has been executed.  (c is a variable the samples set
\* once, before the line.)
C25_IfThenOnce ==
    \A ln \in IfLines :
        LET offs == executedOn(trace, ln)
            c == getVar(varStore, program[ln][IfOffset(ln) + 1].var)
        IN /\ \A i, j \in DOMAIN offs : i < j => offs[i] < offs[j]
           /\ (c = 0) => \A i \in DOMAIN offs : offs[i] <= IfOffset(ln)
           /\ (c # 0 /\ \E i \in DOMAIN trace : trace[i] = <<NextPc(program, ln), 0>>)
                 => \A k \in thenOffsets(ln) : \E i \in DOMAIN offs : offs[i] = k

\* this step is a dispatch of the interval handler
Dispatches ==
    /\ phase \in {"pre", "post"}
    /\ nested = <<>>
    /\ Eligible
    /\ trace' = trace
    /\ nextIntervalFire' # nextIntervalFire

\* this step attempts a transfer to a line the program does not have
TransfersToMissingLine ==
    \/ /\ Executes("GOTO") \/ Executes("GOSUB")
       /\ CurStmt.a \notin DOMAIN program
    \/ /\ Executes("IF")
       /\ getVar(varStore, CurStmt.var) # 0
       /\ CurStmt.c = 1
       /\ CurStmt.b \notin DOMAIN program
    \/ /\ Dispatches
       /\ intervalGosubLine \notin DOMAIN program

\* C26 (as claimed): a transfer to a line that is not in the program (by
\* GOTO, GOSUB, IF ... THEN line, or the dispatch of the interval handler)
\* raises "Undefined line number" and leaves the cursor, the GOSUB stack and
\* the in-handler flag as they were.
C26_UndefinedLineChangesNothing ==
    [][ TransfersToMissingLine =>
           /\ lastError' = "Undefined line number"
           /\ phase' = "idle"
           /\ UNCHANGED <<pc, posInLine, gosubStack, inIntervalISR>>
    ]_vars

\* ---- claims about the interval timer ----

\* a frame is pushed on the GOSUB stack although no statement is executed
FramePushedBetweenStatements ==
    Len(gosubStack') > Len(gosubStack) /\ trace' = trace

\* C27: the interval handler is dispatched only between two statements of
\* the line's statement loop, and only when the timer is armed and enabled,
\* its period is positive, the in-handler flag is clear and the clock reads
\* no less than the next-fire time; the dispatch pushes exactly one frame on
\* the GOSUB stack and sets the in-handler flag; nothing else sets the flag.
C27_DispatchOnlyWhenDue ==
    [][ /\ FramePushedBetweenStatements =>
              /\ phase \in {"pre", "post"}
              /\ nested = <<>>
              /\ intervalArmed /\ intervalEnabled
              /\ intervalSeconds.num > 0 /\ intervalSeconds.den > 0
              /\ ~inIntervalISR
              /\ now' >= nextIntervalFire
              /\ gosubStack' = Append(gosubStack, gosubStack'[Len(gosubStack')])
              /\ inIntervalISR'
        /\ (~inIntervalISR /\ inIntervalISR') => FramePushedBetweenStatements
    ]_vars

\* the handler was dispatched behind the statements of  IF A THEN ...
C27_Witness ==
    /\ program = IfTimerProgram(1, 1)
    /\ out = <<1, 2>>
    /\ inIntervalISR
    /\ gosubStack = <<<<20, 1>>>>
    /\ pc = 100

\* C28: a dispatch moves the next-fire time forward by a whole number, at
\* least one, of periods, to the first time of the schedule that is later
\* than the clock's reading.
C28_RescheduleWholePeriods ==
    [][ FramePushedBetweenStatements =>
           LET period == durationOf(intervalSeconds)
           IN /\ period > 0
              /\ nextIntervalFire' > nextIntervalFire
              /\ (nextIntervalFire' - nextIntervalFire) % period = 0
              /\ nextIntervalFire' > now'
              /\ nextIntervalFire' - period <= now'
    ]_vars

\* a dispatch with period 2 when the clock read 3: the next fire is at 4,
\* one period behind 2, or at 5, one period behind 3
C28_Witness ==
    /\ \E a \in 0..1 : program = IfTimerProgram(a, 2)
    /\ inIntervalISR
    /\ now = 3
    /\ nextIntervalFire \in {4, 5}
    /\ pc = 100

\* C29: ON INTERVAL t GOSUB n arms the timer, makes the period t / 60 seconds
\* and the handler line n, and leaves the enabled flag alone; INTERVAL ON
\* sets the enabled flag and INTERVAL OFF clears it, both leaving the armed
\* flag, the period and the handler line alone; INTERVAL STOP clears the
\* enabled flag and the armed flag.
C29_TimerStatements ==
    [][ /\ Executes("ON") =>
              /\ intervalArmed'
              /\ intervalSeconds'.den > 0
              /\ intervalSeconds'.num * 60 = CurStmt.a * intervalSeconds'.den
              /\ intervalGosubLine' = CurStmt.b
              /\ UNCHANGED intervalEnabled
        /\ (Executes("INTERVAL") /\ CurStmt.var = "ON") =>
              /\ intervalEnabled'
              /\ UNCHANGED <<intervalArmed, intervalSeconds, intervalGosubLine>>
        /\ (Executes("INTERVAL") /\ CurStmt.var = "OFF") =>
              /\ ~intervalEnabled'
              /\ UNCHANGED <<intervalArmed, intervalSeconds, intervalGosubLine>>
        /\ (Executes("INTERVAL") /\ CurStmt.var = "STOP") =>
              ~intervalEnabled' /\ ~intervalArmed'
    ]_vars

\* INTERVAL STOP has run on a timer that was armed twice and enabled
C29_Witness ==
    /\ program = TimerCtrlProgram
    /\ out = <<1>>
    /\ ~intervalArmed /\ ~intervalEnabled
    /\ intervalSeconds = Seconds(1, 60)
    /\ intervalGosubLine = 100

\* END or STOP of the stored program has executed and the driving loop has
\* not yet returned to the prompt
Ended == ~Immediate /\ ~running /\ phase \in {"pre", "post", "fetch"}

\* C30 (as claimed): END and STOP set running and contAvailable to false;
\* from then until the run is back at the prompt no statement is executed,
\* no interval handler is dispatched (the GOSUB stack and the in-handler
\* flag stay as END or STOP found them) and the two flags stay false.
C30_EndHaltsTheRun ==
    [][ /\ (Executes("END") \/ Executes("STOP")) =>
              /\ ~running' /\ ~contAvailable'
              /\ UNCHANGED <<gosubStack, inIntervalISR>>
        /\ Ended =>
              /\ trace' = trace
              /\ ~running' /\ ~contAvailable'
              /\ UNCHANGED <<gosubStack, inIntervalISR, out, varStore>>
    ]_vars

\* ---- claims about the types of scalar variables ----

\* the statement being executed reads the scalar variable v with getVar
ReadsVar(v) ==
    /\ \/ Executes("PRINT")
       \/ Executes("IF")
       \/ Executes("LET") /\ CurStmt.b = 1
    /\ CurStmt.var = v

\* C32: the Value a statement reads from a scalar variable has the type the
\* name of the variable has when the statement runs: Int16 when DEFINT covers
\* its first letter, Double otherwise.
C32_ReadHasTypeOfName ==
    [][ \A v \in DOMAIN varStore :
            ReadsVar(v) => varTypes[v] = varTypeForName(v, defInt) ]_vars

\* PRINT A reads the Value an assignment stored under A before and after
\* DEFINT A, and the assignment behind DEFINT A stored an Int16
C32_Reads ==
    /\ program = DefIntProgram
    /\ out = <<5, 5, 6>>
    /\ varTypes["A"] = "Int16"

\* ---- claims about RESTORE ----

\* the positions (from 0) of the cached items that come from line n or from
\* a later line
ItemsFrom(cache, n) == {i \in 0..(Len(cache) - 1) : cache[i + 1].line >= n}

\* C34: RESTORE n sets the DATA pointer to the first cached item that comes
\* from a line >= n, to the end of the cache when there is none, and RESTORE
\* or RESTORE 0 to the first item; a READ delivers the item at the pointer.
C34_RestoreToLine ==
    [][ /\ Executes("RESTORE") =>
              LET n == CurStmt.a
                  cache == dataCache'
              IN /\ cache = rebuildDataCache(program)
                 /\ dataPtr' = IF n = 0 THEN 0
                               ELSE IF ItemsFrom(cache, n) = {} THEN Len(cache)
                               ELSE Min(ItemsFrom(cache, n))
        /\ (Executes("READ") /\ dataCacheBuilt /\ dataPtr < Len(dataCache)) =>
              /\ getVar(varStore', CurStmt.vars[1]) = dataCache[dataPtr + 1].raw
              /\ dataPtr' > dataPtr
    ]_vars

\* RESTORE 20 between the DATA lines 10 and 30 has moved the pointer to the
\* item of line 30 and READ B has delivered it
C34_Witness ==
    /\ program = RestoreProgram(20)
    /\ RunStopped
    /\ out = <<5>>
    /\ dataPtr = 3

\* RESTORE 31 has moved the pointer behind the last item and READ B has
\* raised Out of data
C34_PastTheLastLine ==
    /\ program = RestoreProgram(31)
    /\ RunStopped
    /\ lastError = "Out of data"
    /\ dataPtr = 3

\* ------------------------------------------------------------------------
\* SpecStale: a program is run, stops with frames on its stacks, is edited at
\* the prompt and is run again.
\* ------------------------------------------------------------------------

StalePrograms ==
    {ReturnErrProgram, NextErrProgram, MissingLineProgram(TRUE),
     GosubLastProgram}

\* the numbered lines typed: line 10 is deleted or replaced, line 20 replaced
StaleLines ==
    { <<10, <<>>>>, <<10, Line(<<PrintLit(1)>>)>>,
      <<20, Line(<<Stmt("RETURN")>>)>> }

InitStale == program \in StalePrograms /\ InitEnv

NextStale ==
    \/ runFromStart
    \/ execute
    \/ parseAndExecLine
    \/ execOneStatement
    \/ exec_PRINT
    \/ exec_LET_or_ASSIGN
    \/ exec_FOR
    \/ exec_NEXT
    \/ \E isGosub \in BOOLEAN : exec_GOTO(isGosub)
    \/ exec_RETURN
    \/ exec_DEFINT
    \/ \E inp \in StaleLines : storeProgramLine_units(inp[1], inp[2])

SpecStale == InitStale /\ [][NextStale]_vars

\* the line a frame resumes at is in the program (or the frame resumes at the
\* end of the program)
Present(line) == line = EndPc \/ line \in DOMAIN program

\* C36 (as claimed): the resume cursor of every frame of the FOR stack and of
\* the GOSUB stack refers to a line of the program.
C36_FramesReferToProgram ==
    /\ \A i \in DOMAIN forStack : Present(forStack[i].returnIt)
    /\ \A i \in DOMAIN gosubStack : Present(gosubStack[i][1])

\* a frame the first run left resumes at a line that was deleted since, and
\* the second run is about to execute RETURN
C36_StaleFrameUsed ==
    /\ gosubStack # <<>>
    /\ ~Present(gosubStack[Len(gosubStack)][1])
    /\ Dispatching("RETURN")

\* ---- claims about the start of a run ----

\* the first statement of a run is executed in this step
FirstStatement == ~Immediate /\ trace = <<>> /\ trace' # <<>>

\* C37 (as claimed): when the first statement of a run executes, the FOR
\* stack and the GOSUB stack are empty and the in-handler flag is clear.
C37_RunStartsClean ==
    [][ FirstStatement =>
           forStack = <<>> /\ gosubStack = <<>> /\ ~inIntervalISR ]_vars

\* the second run is about to execute its first statement with the flag set
\* and a frame on the GOSUB stack, both left by the first run
C37_SecondRunInHandler ==
    /\ runs = 2 /\ trace = <<>> /\ phase = "pre"
    /\ inIntervalISR /\ gosubStack # <<>>

\* ---- claims about the entry of a FOR loop ----

\* C38: FOR tests nothing on entry: it assigns the start to the variable,
\* pushes its frame and goes on with the statement behind it, so the body of
\* a loop whose start is past the limit runs once, and NEXT then ends the
\* loop with the variable one step on.
C38_ForBodyAtLeastOnce ==
    /\ [][ (Executes("FOR") /\ CurStmt.c # 0) =>
              /\ getVar(varStore', CurStmt.var) = CurStmt.a
              /\ forStack' # <<>>
              /\ forStack'[Len(forStack')].var = CurStmt.var
              /\ forStack'[Len(forStack')].endValue = CurStmt.b
              /\ pc' = pc /\ phase' = "post"
              /\ tokStart' = nextTokStart(CurLine, tokStart)
              /\ lastError' = lastError
       ]_vars
    /\ [](\A abc \in PastLimitInputs :
             (program = StepForProgram(abc[1], abc[2], abc[3]) /\ RunStopped)
             => /\ out = <<abc[1], abc[1] + abc[3]>>
                /\ lastError = None
                /\ forStack = <<>>)

\* FOR K = 2 TO 1 STEP 2 has run its body once, with K = 2, and line 20 has
\* printed 4
C38_Witness ==
    /\ program = StepForProgram(2, 1, 2)
    /\ RunStopped
    /\ out = <<2, 4>>

\* ------------------------------------------------------------------------
\* SpecEditor: lines are typed at the prompt and deleted, and the program is
\* rewritten in the full-screen editor.
\* ------------------------------------------------------------------------

\* operator>>(int&) at the beginning of the line l: blanks are skipped, a sign
\* and digits are read; [ok, value, end], end the offset behind the digits
readInt(l) ==
    LET a == skipSpace(l, 0)
        signed == a < Len(l) /\ l[a + 1] \in {"+", "-"}
        b == IF signed THEN a + 1 ELSE a
        d == scanDigits(l, b)
        n == CharsToInt(substr(l, b, d - b), 0)
    IN [ok |-> d > b,
        value |-> IF signed /\ l[a + 1] = "-" THEN -n ELSE n,
        end |-> d]

\* the loop of run_editor_inplace over the lines of the editor: a line that
\* begins with a number and has characters behind it is stored under the
\* number, without the first of those characters
RECURSIVE editorLines(_, _)
editorLines(lines, prog) ==
    IF lines = <<>> THEN prog
    ELSE Only({ editorLines(Tail(lines),
                    IF n.ok /\ n.end < Len(Head(lines))
                    THEN Assign(prog, n.value,
                                substrFrom(Head(lines), n.end + 1))
                    ELSE prog) :
                n \in {readInt(Head(lines))} })

\* run_editor_inplace with the lines the operator leaves in the editor, and
\* resetAfterProgramEdit as the EDIT command of the SDL front end calls it
run_editor_inplace_text(lines) ==
    /\ AtPrompt
    /\ program' = editorLines(lines, EmptyProgram)
    /\ resetAfterProgramEdit
    /\ lastOp' = [op |-> "edit", ln |-> 0, raw |-> lines]
    /\ UNCHANGED <<file, crashed, saved>>
    /\ runUntouched

\* the lines the operator leaves in the editor
EditorLines ==
    { <<"1"," ","F">>, <<"2"," ","i","f">>, <<"2"," "," ","F"," ">>,
      <<"1"," ">>, <<"2">>, <<"0"," ","F">>, <<"-","1"," ","F">>, <<"F">> }

EditorBuffers ==
    {<<l>> : l \in EditorLines} \cup {<<l, m>> : l, m \in EditorLines}

InitEditor == program = EmptyProgram /\ InitEnv

NextEditor ==
    \/ \E t \in Texts : storeProgramLine(1, t)
    \/ \E ln \in Lines : cmd_DELETE(ln)
    \/ \E buf \in EditorBuffers : run_editor_inplace_text(buf)

SpecEditor == InitEditor /\ [][NextEditor]_vars

\* C39 (as claimed): every key of the program is a positive line number and
\* every stored text is not empty, trimmed and keyword-normalized.
C39_ProgramWellFormed ==
    \A n \in DOMAIN program :
        /\ n > 0
        /\ program[n] # <<>>
        /\ trim(program[n]) = program[n]
        /\ normalize_keywords_upper_preserve(program[n])
              = [ok |-> TRUE, text |-> program[n]]

\* the editor has stored an empty text under line 1 and a text with a blank
\* before and behind it and a keyword in lower case under line 2
C39_EditorStoredAsTyped ==
    /\ lastOp.op = "edit"
    /\ DOMAIN program = {1, 2}
    /\ program[1] = <<>>
    /\ program[2] = <<" ","F"," ">>

\* =========================================================================
\* Part D.  The threaded SDL front end (repl_sdl2_ttf.cpp, interpreter.h
\*          startRun/startCont/execute of the SDL build)
\* =========================================================================
\* The UI thread runs the main loop of Interpreter::repl_sdl2_ttf; RUN and
\* CONT start the interpreter thread, which runs Interpreter::execute.  Both
\* threads write the terminal grid (SDLTerminalBuffer) and both poll the SDL
\* event queue and the break flag.  A step of a thread is one access to
\* something the other thread can see.  The stored program has one statement
\* a line; an event is a key: "ESC", "QUIT" (the window is closed), or a
\* command typed and entered.  INPUT, the pause of DEBUG between two lines
\* and window events are not modelled.

MaxEvents == 2     \* events waiting in the SDL queue
MaxKeys == 4       \* keys pressed in one session

Commands == {"RUN", "CONT", "DEBUG", "CLEAR"}
Keys == {"ESC", "QUIT"} \cup Commands

\* a program that prints for ever, and one that prints and ends
ForeverProgram ==
    (10 :> Line(<<PrintLit(1)>>)) @@ (20 :> Line(<<Goto(10)>>))
BriefProgram ==
    (10 :> Line(<<PrintLit(1)>>)) @@ (20 :> Line(<<Stmt("END")>>))
SdlPrograms == {ForeverProgram, BriefProgram}

envFlags == <<pc, running, stopped, contAvailable>>

\* what the front end leaves alone
sdlUntouched ==
    UNCHANGED <<program, posInLine, keys, varVars, dataVars, stackVars,
                timerVars, parserVars, out, lastError, replVars, arithVars, arrays,
                historyVars>>

\* the std::thread runs the lambda (it has been started and has not returned)
ThreadAlive == programThread \notin {"none", "finished"}

\* the steps in which a thread reads or writes the grid or its cursor
UiGridSteps ==
    {"pushLine", "commitLine", "inPrompt", "inFinish", "inFinishKey",
     "rendering"}
ThreadGridSteps == {"inBreak", "inPrint"}

\* the steps in which the UI thread writes the Env
UiEnvSteps == {"commitLine", "executeStep"}

\* std::lock_guard<std::mutex> lock(termMutex), and its destructor
Lock(who) == termMutex = "free" /\ termMutex' = who
Unlock(who) == termMutex = who /\ termMutex' = "free"

Busy_never == FALSE

\* the test  if (programRunning)  of the event handlers
Busy == programRunning

\* ---- the operator ----

SDL_PushEvent(key) ==
    /\ ui \notin {"shutdown", "joining", "exited"}
    /\ Len(sdlEvents) < MaxEvents
    /\ keys < MaxKeys
    /\ keys' = keys + 1
    /\ sdlEvents' = Append(sdlEvents, key)
    /\ UNCHANGED <<ui, programThread, termMutex, programRunning, programDone,
                   debugStepping, committed, envFlags, sigint, diag>>
    /\ UNCHANGED <<program, posInLine, varVars, dataVars, stackVars,
                   timerVars, parserVars, out, lastError, replVars, arithVars, arrays,
                   historyVars>>

\* ---- the UI thread ----

\* the head of the main loop: the break flag is exchanged for false
mainLoop ==
    /\ ui = "top"
    /\ sigint' = FALSE
    /\ ui' = IF sigint THEN "pushLine" ELSE "poll"
    /\ UNCHANGED <<programThread, termMutex, programRunning, programDone,
                   debugStepping, sdlEvents, committed, envFlags, diag>>
    /\ sdlUntouched

\* term.pushLine("Break") of the main loop: no lock is taken
pushLine ==
    /\ ui = "pushLine"
    /\ ui' = "beginPrompt"
    /\ UNCHANGED <<programThread, termMutex, programRunning, programDone,
                   debugStepping, sdlEvents, committed, envFlags, sigint, diag>>
    /\ sdlUntouched

\* a block of the UI thread that writes or reads the grid under a lock_guard:
\* it waits at step at, holds the mutex at step in, and goes on at step to
Guarded(at, in, to) ==
    /\ \/ ui = at /\ Lock("ui") /\ ui' = in
       \/ ui = in /\ Unlock("ui") /\ ui' = to
    /\ UNCHANGED <<programThread, programRunning, programDone, debugStepping,
                   sdlEvents, committed, envFlags, sigint, diag>>
    /\ sdlUntouched

\* beginPrompt, called by the main loop and by commitLine
beginPrompt ==
    /\ ui \in {"beginPrompt", "inPrompt"}
    /\ Guarded("beginPrompt", "inPrompt", "poll")

\* the blocks of finishProgramRun (putChar and beginPrompt), called behind
\* the join of the main loop and by executeStep
finishProgramRun ==
    /\ ui \in {"finish", "inFinish"}
    /\ Guarded("finish", "inFinish", "render")

\* the same called by the handler of ESC while DEBUG steps
finishProgramRun_key ==
    /\ ui \in {"finishKey", "inFinishKey"}
    /\ Guarded("finishKey", "inFinishKey", "poll")

\* the two blocks that draw the grid and the cursor; the loop starts over
render ==
    /\ ui \in {"render", "rendering"}
    /\ Guarded("render", "rendering", "top")

\* while (SDL_PollEvent(&e)) of the main loop, one event
SDL_PollEvent ==
    /\ ui = "poll"
    /\ IF sdlEvents = <<>>
       THEN /\ ui' = "join"
            /\ UNCHANGED <<sdlEvents, committed, programRunning,
                           debugStepping, envFlags, sigint>>
       ELSE /\ sdlEvents' = Tail(sdlEvents)
            /\ LET e == Head(sdlEvents) IN
               IF e = "QUIT"
               THEN /\ ui' = "shutdown"
                    /\ UNCHANGED <<committed, programRunning, debugStepping,
                                   envFlags, sigint>>
               ELSE IF Busy
               THEN IF e = "ESC" /\ debugStepping
                    THEN /\ running' = FALSE
                         /\ stopped' = FALSE
                         /\ contAvailable' = FALSE
                         /\ programRunning' = FALSE
                         /\ debugStepping' = FALSE
                         /\ ui' = "finishKey"
                         /\ UNCHANGED <<committed, sigint, pc>>
                    ELSE /\ sigint' = (sigint \/ (e = "ESC" /\ ~debugStepping))
                         /\ ui' = "poll"
                         /\ UNCHANGED <<committed, programRunning,
                                        debugStepping, envFlags>>
               ELSE IF e = "ESC"
               THEN /\ ui' = "shutdown"
                    /\ UNCHANGED <<committed, programRunning, debugStepping,
                                   envFlags, sigint>>
               ELSE IF e = "CTRL_L"
               THEN /\ ui' = "ctrlL"
                    /\ UNCHANGED <<committed, programRunning, debugStepping,
                                   envFlags, sigint>>
               ELSE /\ committed' = e
                    /\ ui' = "commitLine"
                    /\ UNCHANGED <<programRunning, debugStepping, envFlags,
                                   sigint>>
    /\ UNCHANGED <<programThread, termMutex, programDone, diag>>
    /\ sdlUntouched

\* Interpreter::startRun (the variables and the DATA cache of the Env are
\* written too)
startRun ==
    /\ sigint' = FALSE
    /\ running' = TRUE
    /\ stopped' = FALSE
    /\ pc' = FirstPc(program)
    /\ UNCHANGED contAvailable

\* Interpreter::startCont when CONT is available
startCont ==
    /\ sigint' = FALSE
    /\ running' = TRUE
    /\ stopped' = FALSE
    /\ UNCHANGED <<pc, contAvailable>>

\* commitLine: moveCursorToInputEnd writes the cursor of the grid without a
\* lock, then the command is executed (the locked putChar between the two is
\* left out)
commitLine ==
    /\ ui = "commitLine"
    /\ IF committed = "RUN"
       THEN /\ startRun
            /\ diag' = <<>>
            /\ debugStepping' = FALSE
            /\ programDone' = FALSE
            /\ programRunning' = TRUE
            /\ ui' = "spawn"
       ELSE IF committed = "CONT"
       THEN IF ~contAvailable
            THEN /\ diag' = <<Diagnostic("Cannot CONTINUE", 0, None)>>
                 /\ ui' = "beginPrompt"
                 /\ UNCHANGED <<envFlags, sigint, debugStepping, programDone,
                                programRunning>>
            ELSE /\ startCont
                 /\ diag' = <<>>
                 /\ debugStepping' = FALSE
                 /\ programDone' = FALSE
                 /\ programRunning' = TRUE
                 /\ ui' = "spawn"
       ELSE IF committed = "DEBUG"
       THEN /\ startRun
            /\ diag' = <<>>
            /\ debugStepping' = TRUE
            /\ programRunning' = TRUE
            /\ ui' = "poll"
            /\ UNCHANGED programDone
       ELSE \* CLEAR: Interpreter::cmd_CLEAR
            /\ contAvailable' = FALSE
            /\ diag' = <<>>
            /\ ui' = "beginPrompt"
            /\ UNCHANGED <<pc, running, stopped, sigint, debugStepping,
                           programDone, programRunning>>
    /\ UNCHANGED <<programThread, termMutex, sdlEvents, committed>>
    /\ sdlUntouched

\* if (programThread.joinable()) programThread.join();
\* programThread = std::thread(...)  of RUN and CONT
startThread ==
    /\ ui = "spawn"
    /\ ~ThreadAlive
    /\ programThread' = "pump"
    /\ ui' = "poll"
    /\ UNCHANGED <<termMutex, programRunning, programDone, debugStepping,
                   sdlEvents, committed, envFlags, sigint, diag>>
    /\ sdlUntouched

\* "If a background run finished, join and return to prompt"
joinThread ==
    /\ ui = "join"
    /\ IF programRunning /\ ~debugStepping /\ programDone
       THEN /\ ~ThreadAlive
            /\ programThread' = "none"
            /\ programRunning' = FALSE
            /\ ui' = "finish"
       ELSE /\ ui' = IF programRunning /\ debugStepping
                     THEN "executeStep" ELSE "render"
            /\ UNCHANGED <<programThread, programRunning>>
    /\ UNCHANGED <<termMutex, programDone, debugStepping, sdlEvents,
                   committed, envFlags, sigint, diag>>
    /\ sdlUntouched

\* the line at pc is parsed and executed, and pc steps: PRINT, GOTO or END
statement ==
    LET s == program[pc][1] IN
    /\ pc' = IF s.op = "GOTO" THEN s.a ELSE NextPc(program, pc)
    /\ running' = (s.op # "END")
    /\ contAvailable' = (contAvailable /\ s.op # "END")
    /\ UNCHANGED stopped

\* executeStep, which runs the program of DEBUG on the UI thread: the run is
\* over, or the break flag is set, or the line at pc is executed (what it
\* prints is written under the lock, by the only thread there is)
executeStep ==
    /\ ui = "executeStep"
    /\ IF ~running \/ stopped
       THEN /\ programRunning' = FALSE
            /\ debugStepping' = FALSE
            /\ ui' = "finish"
            /\ UNCHANGED <<envFlags, sigint, diag>>
       ELSE IF sigint
       THEN /\ sigint' = FALSE
            /\ diag' = Append(diag, Diagnostic("Break", 0, None))
            /\ running' = FALSE
            /\ stopped' = FALSE
            /\ contAvailable' = TRUE
            /\ programRunning' = FALSE
            /\ debugStepping' = FALSE
            /\ ui' = "finish"
       ELSE IF pc = EndPc
       THEN /\ running' = FALSE
            /\ contAvailable' = FALSE
            /\ programRunning' = FALSE
            /\ debugStepping' = FALSE
            /\ ui' = "finish"
            /\ UNCHANGED <<pc, stopped, sigint, diag>>
       ELSE /\ statement
            /\ ui' = "render"
            /\ UNCHANGED <<programRunning, debugStepping, sigint, diag>>
    /\ UNCHANGED <<programThread, termMutex, programDone, sdlEvents,
                   committed>>
    /\ sdlUntouched

\* behind the main loop: a thread that can be joined is asked to stop and
\* joined
shutdown ==
    /\ \/ /\ ui = "shutdown"
          /\ ui' = IF programThread = "none" THEN "exited" ELSE "joining"
          /\ sigint' = (sigint \/ programThread # "none")
          /\ UNCHANGED programThread
       \/ /\ ui = "joining"
          /\ programThread = "finished"
          /\ programThread' = "none"
          /\ ui' = "exited"
          /\ UNCHANGED sigint
    /\ UNCHANGED <<termMutex, programRunning, programDone, debugStepping,
                   sdlEvents, committed, envFlags, diag>>
    /\ sdlUntouched

\* ---- the interpreter thread ----

\* the head of the loop of execute and sdl_pump_events_during_run, one event:
\* every event but SDL_QUIT is dropped
sdl_pump_events_during_run ==
    /\ programThread = "pump"
    /\ IF ~running \/ stopped
       THEN /\ programThread' = "return"
            /\ UNCHANGED <<sdlEvents, envFlags>>
       ELSE IF sdlEvents = <<>>
       THEN /\ programThread' = "poll"
            /\ UNCHANGED <<sdlEvents, envFlags>>
       ELSE /\ sdlEvents' = Tail(sdlEvents)
            /\ IF Head(sdlEvents) = "QUIT"
               THEN /\ running' = FALSE
                    /\ stopped' = FALSE
                    /\ contAvailable' = FALSE
                    /\ programThread' = "return"
                    /\ UNCHANGED pc
               ELSE /\ programThread' = "pump"
                    /\ UNCHANGED envFlags
    /\ UNCHANGED <<ui, termMutex, programRunning, programDone, debugStepping,
                   committed, sigint, diag>>
    /\ sdlUntouched

\* execute: the break flag is exchanged for false
execute_poll ==
    /\ programThread = "poll"
    /\ sigint' = FALSE
    /\ programThread' = IF sigint THEN "break" ELSE "exec"
    /\ UNCHANGED <<ui, termMutex, programRunning, programDone, debugStepping,
                   sdlEvents, committed, envFlags, diag>>
    /\ sdlUntouched

\* execute having seen the flag: Break is written through the stream buffer,
\* which locks, and the run stops with CONT available
execute_break ==
    /\ \/ /\ programThread = "break"
          /\ Lock("thread")
          /\ programThread' = "inBreak"
          /\ UNCHANGED <<envFlags, diag>>
       \/ /\ programThread = "inBreak"
          /\ Unlock("thread")
          /\ diag' = Append(diag, Diagnostic("Break", 0, None))
          /\ running' = FALSE
          /\ stopped' = FALSE
          /\ contAvailable' = TRUE
          /\ programThread' = "return"
          /\ UNCHANGED pc
    /\ UNCHANGED <<ui, programRunning, programDone, debugStepping, sdlEvents,
                   committed, sigint>>
    /\ sdlUntouched

\* execute at the line at pc: the program is over, or the line is parsed
\* and executed; what PRINT writes goes through the stream buffer, which
\* locks
execute_statement ==
    /\ programThread = "exec"
    /\ IF pc = EndPc
       THEN /\ running' = FALSE
            /\ contAvailable' = FALSE
            /\ programThread' = "pump"
            /\ UNCHANGED <<pc, stopped, termMutex>>
       ELSE IF program[pc][1].op = "PRINT"
       THEN /\ Lock("thread")
            /\ programThread' = "inPrint"
            /\ UNCHANGED envFlags
       ELSE /\ statement
            /\ programThread' = "pump"
            /\ UNCHANGED termMutex
    /\ UNCHANGED <<ui, programRunning, programDone, debugStepping, sdlEvents,
                   committed, sigint, diag>>
    /\ sdlUntouched

\* the end of SDLTerminalStreamBuf::sync, which held the lock, and of the
\* line that printed
sync ==
    /\ programThread = "inPrint"
    /\ Unlock("thread")
    /\ statement
    /\ programThread' = "pump"
    /\ UNCHANGED <<ui, programRunning, programDone, debugStepping, sdlEvents,
                   committed, sigint, diag>>
    /\ sdlUntouched

\* the lambda behind execute: programDone.store(true)
threadReturn ==
    /\ programThread = "return"
    /\ programDone' = TRUE
    /\ programThread' = "finished"
    /\ UNCHANGED <<ui, termMutex, programRunning, debugStepping, sdlEvents,
                   committed, envFlags, sigint, diag>>
    /\ sdlUntouched

\* the handler of Ctrl+L at the prompt: term.clear and term.pushLine under a
\* lock_guard that lives until the handler's continue, and beginPrompt
\* called while it lives
clearScreen ==
    /\ ui = "ctrlL"
    /\ Lock("ui")
    /\ ui' = "beginPrompt"
    /\ UNCHANGED <<programThread, programRunning, programDone, debugStepping,
                   sdlEvents, committed, envFlags, sigint, diag>>
    /\ sdlUntouched

\* the steps at which the UI thread constructs a lock_guard of termMutex
UiLockSteps == {"beginPrompt", "finish", "finishKey", "render", "ctrlL"}

\* std::mutex::lock called by the thread that owns the mutex is undefined:
\* the thread blocks for ever (it has no step), or lock throws
\* std::system_error and the front end is left
relock ==
    /\ ui \in UiLockSteps
    /\ termMutex = "ui"
    /\ ui' = "exited"
    /\ UNCHANGED <<programThread, termMutex, programRunning, programDone,
                   debugStepping, sdlEvents, committed, envFlags, sigint, diag>>
    /\ sdlUntouched

\* ---- the front end as a whole ----

UiStep ==
    \/ mainLoop
    \/ pushLine
    \/ beginPrompt
    \/ SDL_PollEvent
    \/ commitLine
    \/ startThread
    \/ joinThread
    \/ finishProgramRun
    \/ finishProgramRun_key
    \/ executeStep
    \/ render
    \/ shutdown

ThreadStep ==
    \/ sdl_pump_events_during_run
    \/ execute_poll
    \/ execute_break
    \/ execute_statement
    \/ sync
    \/ threadReturn

InitSdl == program \in SdlPrograms /\ InitEnv

NextSdl ==
    \/ \E key \in Keys : SDL_PushEvent(key)
    \/ UiStep
    \/ ThreadStep

SpecSdl == InitSdl /\ [][NextSdl]_vars

\* Both threads are scheduled: a thread that can take a step again and again
\* takes one.  The operator presses MaxKeys keys at most.
SpecSdlFair == SpecSdl /\ SF_vars(UiStep) /\ SF_vars(ThreadStep)


\* ---- claims about the threads of the front end ----

\* C17 (as claimed): while the interpreter thread is alive, a thread that
\* reads or writes the terminal grid or its cursor holds termMutex.
C17_GridUnderMutex ==
    ThreadAlive =>
        /\ ui \in UiGridSteps => termMutex = "ui"
        /\ programThread \in ThreadGridSteps => termMutex = "thread"

\* a thread is started in this step
ThreadStarts == ui = "spawn" /\ ui' = "poll"

\* C18: a thread is started only when there is none that has not been
\* joined; and while there is one, the UI thread is in no step that writes
\* the Env (commitLine, which executes every command, and executeStep) and
\* no step of it changes the cursor or the run flags of the Env.
C18_SingleWriter ==
    /\ [][ThreadStarts => programThread = "none"]_vars
    /\ [](programThread # "none" => ui \notin UiEnvSteps)
    /\ [][(programThread # "none" /\ envFlags' # envFlags) => ui' = ui]_vars

\* CONT has started a second thread after a break, which is about to execute
\* a line, while a command the operator typed waits in the event queue
C18_Witness ==
    /\ program = ForeverProgram
    /\ programThread = "exec"
    /\ contAvailable /\ running
    /\ ui = "poll"
    /\ sdlEvents # <<>> /\ Head(sdlEvents) \in Commands

\* ESC was pressed while the program runs on the interpreter thread, and the
\* break flag is set
BreakRequested ==
    sigint /\ programRunning /\ ~debugStepping /\ programThread # "none"

\* C19 (as claimed): a break requested while a program runs on the
\* interpreter thread is followed by the end of that run: the front end is
\* back at the prompt (or has been left).
C19_BreakNeverLost ==
    BreakRequested ~> (~programRunning \/ ui = "exited")

\* C35 (as claimed): the interpreter thread calls no UI primitive; of the
\* primitives the model has, an event leaves the SDL queue only in a step of
\* the poll loop of the UI thread.
C35_OnlyUiPollsEvents ==
    [][ Len(sdlEvents') < Len(sdlEvents) => ui = "poll" ]_vars

\* the interpreter thread is at the head of the loop of execute with an event
\* in the queue while the UI thread renders
C35_ThreadAtPump ==
    /\ programThread = "pump"
    /\ running /\ ~stopped
    /\ sdlEvents # <<>>
    /\ ui = "rendering"

\* ------------------------------------------------------------------------
\* SpecKeys: the UI thread at the prompt; the operator presses Ctrl+L, types
\* CLEAR and closes the window.
\* ------------------------------------------------------------------------

PromptKeys == {"CTRL_L", "CLEAR", "QUIT"}

NextKeys ==
    \/ \E key \in PromptKeys : SDL_PushEvent(key)
    \/ mainLoop
    \/ beginPrompt
    \/ SDL_PollEvent
    \/ commitLine
    \/ joinThread
    \/ render
    \/ shutdown
    \/ clearScreen
    \/ relock

SpecKeys == InitSdl /\ [][NextKeys]_vars

\* C40 (as claimed): the UI thread never constructs a lock_guard of the
\* terminal mutex while it holds the mutex.
C40_UiNeverRelocks ==
    ui \in UiLockSteps => termMutex # "ui"

\* the handler of Ctrl+L holds the mutex and has called beginPrompt
C40_CtrlLInBeginPrompt ==
    /\ ui = "beginPrompt" /\ termMutex = "ui"
    /\ ~programRunning /\ programThread = "none"

====
